---- MODULE Spec2Model ----
(***************************************************************************)
(* soynode: the compile pipeline of SoyCompiler.js (artifact cache,        *)
(* external compiler run, per-locale post-processing, compile event) and   *)
(* its change-watch scheduler (debounce, dirty set, chained promise).      *)
(*                                                                         *)
(* One JavaScript callback runs to completion, so every action below is    *)
(* one callback: a public call, a watch notification, a promise            *)
(* continuation, an I/O completion or a child-process signal.              *)
(***************************************************************************)
EXTENDS Integers, Sequences, FiniteSets, TLC

\* ---------------------------------------------------------------- bounds
\* The clock advances MaxTicks times, by TimeStep ms each time.
TimeStep == 500
MaxTicks == 4
\* Date.now() at the first call (the tests start their clock at 1).
StartTime == 1
\* Consecutive compile calls of a compiler without watches.
MaxCalls == 2
\* Calls of loadCompiledTemplateFiles on the contexts of one compiler.
MaxLoads == 2
\* 'exit' and 'error' events one compiler process emits.
MaxSignals == 2
\* Keys of the object given to setOptions.
MaxKeys == 2
\* Objects getDefaultOptions returns.
MaxDefaults == 2

\* ------------------------------------------------------ program constants
\* SoyCompiler.js:545, the debounce threshold in ms.
DEBOUNCE_MS == 1000

\* SoyCompiler.js:16
DEFAULT_VM_CONTEXT == "default"

\* The source files of the input directory, in findFiles order.
FileList == <<"template1.soy", "template2.soy">>
Files == {FileList[i] : i \in 1..Len(FileList)}

NoDir == "null"
TmpDir == "/tmp/soynode"
InputDir == "assets"

\* Contents of a generated file: produced by an earlier build, or by a
\* compiler run of this process.
OldJs == "old"
NewJs == "new"

\* ------------------------------------------------------------- variables
VARIABLES
  options,        \* SoyCompiler._options (the fields the pipeline reads)
  env,            \* the environment: which I/O faults can happen
  now,            \* Date.now()
  disk,           \* generated files on disk: path -> contents
  call,           \* the compile call: position, output dir, files, filter result
  tasks,          \* _preparePrecompiledFile: one lookup per (file, vmType)
  watches,        \* SoyCompiler._watches: file -> time of the last accepted event
  watchFiles,     \* files with a callback registered through fs.watchFile
  closure,        \* arguments captured by the watch callbacks: dirs and files
  dirtyFileSet,   \* closure variable of _maybeSetupDynamicRecompile
  pending,        \* continuations queued on currentCompilePromise, not yet run
  chainWait,      \* id of the pass whose promise the chain's tail waits on, or 0
  passes,         \* compile passes in flight (sequence of records)
  spawns,         \* childProcess.spawn calls: how many, and the last one
  vmTemplates,    \* per sandbox context: file -> contents of the loaded module
  lastEvent,      \* the last 'compile' event published: its two arguments
  hist,           \* history of the scheduler (observation only)
  vm,             \* SoyCompiler._vmContexts, the loads in flight, the last get
  run,            \* one runCompiler call: its deferred and the terminated flag
  lastMerge,      \* the last SoyOptions.merge call: its argument and outcome
  defaults,       \* the objects getDefaultOptions returned, and its last result
  support,        \* SoyVmContext.js supportFilePromises, shared by the instances
  lf              \* one loadFiles call: reads completed, modules executed

vars == <<options, env, now, disk, call, tasks, watches, watchFiles, closure,
          dirtyFileSet, pending, chainWait, passes, spawns,
          vmTemplates, lastEvent, hist, vm, run, lastMerge,
          defaults, support, lf>>

\* The variables of the units modelled on their own.
unitVars == <<defaults, support, lf>>

\* The variables of the compile pipeline and of the watch scheduler.
pipelineVars == <<env, now, disk, call, tasks, watches, watchFiles, closure,
                  dirtyFileSet, pending, chainWait, passes, spawns,
                  vmTemplates, lastEvent, hist>>

\* ---------------------------------------------------------------- helpers
SeqToSet(s) == {s[i] : i \in 1..Len(s)}

\* Array.prototype.filter over a sequence, keeping order.
RECURSIVE FilterSeq(_, _)
FilterSeq(s, keep) ==
  IF s = <<>> THEN <<>>
  ELSE IF Head(s) \in keep THEN <<Head(s)>> \o FilterSeq(Tail(s), keep)
       ELSE FilterSeq(Tail(s), keep)

\* Mutant of KeysOf: only the first key is taken.
KeysOfFirstOnly(set) ==
  IF FilterSeq(FileList, set) = <<>> THEN <<>>
  ELSE <<Head(FilterSeq(FileList, set))>>

\* Object.keys(dirtyFileSet): the dirty files as a list.
KeysOf(set) == FilterSeq(FileList, set)

\* A function with one more point.
Put(f, k, v) == [x \in DOMAIN f \cup {k} |-> IF x = k THEN v ELSE f[x]]

\* -------------------------------------------------------- options and paths
\* vmTypes of _compileTemplateFilesAsync and _maybeUsePrecompiledFiles.
VmTypesOf(opts) ==
  IF Len(opts.locales) > 0 THEN opts.locales ELSE <<DEFAULT_VM_CONTEXT>>

\* SoyCompiler.prototype._createOutputDir: the directory, and the time stamp
\* joined to it when uniqueDir is not false (0 stands for no stamp).
CreateOutputDir(opts, t) ==
  LET dir == IF opts.outputDir # NoDir THEN opts.outputDir ELSE opts.tmpDir
  IN  IF opts.uniqueDir THEN <<dir, t>> ELSE <<dir, 0>>

\* SoyCompiler.prototype._getOutputFile: <<directory, locale segment, file>>.
GetOutputFile(opts, outputDir, file, vmType) ==
  IF Len(opts.locales) > 1 THEN <<outputDir, vmType, file>>
  ELSE <<outputDir, "", file>>

\* An --outputPathFormat with {LOCALE} whenever locales are configured.
CompilerOutputPathAnyLocale(opts, outputDir, file, locale) ==
  IF Len(opts.locales) > 0
  THEN <<outputDir, locale, file>>
  ELSE <<outputDir, "", file>>

\* The path the external compiler writes for (file, locale), from the
\* --outputPathFormat built in _compileTemplateFilesAsync.
CompilerOutputPath(opts, outputDir, file, locale) ==
  IF Len(opts.locales) > 0 /\ Len(opts.locales) > 1
  THEN <<outputDir, locale, file>>
  ELSE <<outputDir, "", file>>

DefaultOptions ==
  [ tmpDir |-> TmpDir, outputDir |-> NoDir, precompiledDir |-> NoDir,
    uniqueDir |-> TRUE, allowDynamicRecompile |-> FALSE,
    loadCompiledTemplates |-> TRUE, concatOutput |-> FALSE,
    locales |-> <<>> ]

\* The closure of the watch callbacks before any watch is set; emitter is
\* the number of the call whose emitter the callbacks publish on.
NoClosure ==
  [inputDir |-> "", outputDir |-> <<"", 0>>, files |-> <<>>, emitter |-> 0]

\* ------------------------------------------------------------ compile pass
\* A pass is one call of _compileTemplateFilesAndEmit. phase is the position
\* of its promise chain: "compile" (the child process runs), "post" (between
\* two _postCompileProcess calls), "load" (a load into context cur is in
\* flight), "emit" (about to publish the compile event). cause, posted and
\* concatFailed are history: what made the pass fail, whether
\* _postCompileProcess was entered, whether a concatenation threw; postLog
\* lists the vmTypes _postCompileProcess was called with, and open counts
\* the calls whose promise has not settled.
NewPass(id, kind, inputDir, outputDir, allFiles, dirtyFiles) ==
  [ id |-> id, kind |-> kind, inputDir |-> inputDir, outputDir |-> outputDir,
    allFiles |-> allFiles, dirtyFiles |-> dirtyFiles,
    phase |-> IF Len(dirtyFiles) = 0 THEN "post" ELSE "compile",
    vmLeft |-> IF Len(dirtyFiles) = 0 THEN VmTypesOf(options) ELSE <<>>,
    cur |-> "", err |-> FALSE,
    cause |-> "none", posted |-> FALSE, concatFailed |-> FALSE,
    postLog |-> <<>>, open |-> 0, emitter |-> call.n ]

\* Mutant of SpawnsAfter: java is spawned for an empty dirty list too.
SpawnsAfterAlways(p) ==
  [ n |-> spawns.n + 1,
    last |-> [cwd |-> p.inputDir, files |-> p.dirtyFiles,
              outputDir |-> p.outputDir] ]

\* runCompiler: no process is spawned for an empty dirty list; otherwise
\* java runs in inputDir over the dirty files.
SpawnsAfter(p) ==
  IF Len(p.dirtyFiles) = 0 THEN spawns
  ELSE [ n |-> spawns.n + 1,
         last |-> [cwd |-> p.inputDir, files |-> p.dirtyFiles,
                   outputDir |-> p.outputDir] ]

\* Ids name the passes in flight; the id of a settled pass is free again.
NewId == CHOOSE n \in 1..(Len(passes) + 1) :
           \A i \in 1..Len(passes) : passes[i].id # n

InFlight(kind) == {i \in 1..Len(passes) : passes[i].kind = kind}

RemoveAt(s, i) == SubSeq(s, 1, i - 1) \o SubSeq(s, i + 1, Len(s))

\* The files the external compiler writes on a successful run: one per
\* dirty file and locale.
CompilerWrites(p) ==
  { CompilerOutputPath(options, p.outputDir, f, l) :
      f \in SeqToSet(p.dirtyFiles), l \in SeqToSet(VmTypesOf(options)) }

\* Mutant of PhaseAfterExit: post-processing follows a failed run too.
PhaseAfterExitAlwaysPost(code) == "post"

\* runCompiler().then(...): post-processing follows a resolved run only; a
\* rejected run goes to the rejection handler, which publishes the error.
PhaseAfterExit(code) == IF code = 0 THEN "post" ELSE "emit"

\* vmTypes, which the handler that starts post-processing creates.
VmTypesAfterExit(code) ==
  IF PhaseAfterExit(code) = "post" THEN VmTypesOf(options) ELSE <<>>

\* onExit of runCompiler: exit code 0 resolves, anything else rejects; a
\* spawn 'error' is onExit(1).
CompilerExit(i, code) ==
  /\ i \in 1..Len(passes)
  /\ passes[i].phase = "compile"
  /\ IF code = 0
     THEN /\ disk' = [q \in DOMAIN disk \cup CompilerWrites(passes[i]) |->
                        IF q \in CompilerWrites(passes[i]) THEN NewJs ELSE disk[q]]
          /\ passes' = [passes EXCEPT ![i].phase = PhaseAfterExit(code),
                                      ![i].vmLeft = VmTypesAfterExit(code)]
     ELSE /\ disk' = disk
          /\ passes' = [passes EXCEPT ![i].phase = PhaseAfterExit(code),
                                      ![i].vmLeft = VmTypesAfterExit(code),
                                      ![i].err = TRUE, ![i].cause = "compile"]
  /\ UNCHANGED <<unitVars, vm, run, lastMerge, options, env, now, call, tasks, watches, watchFiles,
                 closure, dirtyFileSet, pending, chainWait, spawns,
                 vmTemplates, lastEvent, hist>>

\* templatePaths of _postCompileProcess.
TemplatePaths(p) ==
  [k \in 1..Len(p.allFiles) |-> GetOutputFile(options, p.outputDir, p.allFiles[k], p.cur)]

\* A _concatOutput that appends the vmType whatever the locales.
ConcatFileAlwaysSuffixed(outputDir, vmType) ==
  <<outputDir, "", "compiled_" \o vmType \o ".soy.concat.js">>

\* The target of _concatOutput.
ConcatFile(outputDir, vmType) ==
  <<outputDir, "",
    IF Len(options.locales) > 1 THEN "compiled_" \o vmType \o ".soy.concat.js"
    ELSE "compiled.soy.concat.js">>

\* files.map(file => fs.readFileSync(file).toString()).join('')
RECURSIVE Concatenated(_, _)
Concatenated(d, paths) ==
  IF paths = <<>> THEN "" ELSE d[Head(paths)] \o Concatenated(d, Tail(paths))

ConcatOutcomes == IF options.concatOutput THEN BOOLEAN ELSE {TRUE}

\* A loop that calls _postCompileProcess for the next vmType without waiting
\* for the promise of the previous call.
PostReadyNoWait(p) == p.phase \in {"post", "load"}

\* ._postCompileProcess(...).then(next): next runs when the promise of the
\* previous _postCompileProcess has resolved.
PostReady(p) == p.phase = "post"

\* next() of _compileTemplateFilesAsync: vmTypes.pop() and
\* _postCompileProcess for that vmType. With concatOutput the output files
\* are read and the concatenation is written; an exception (a file that is
\* not there, a write that fails) is caught and logged. Without
\* loadCompiledTemplates the step then resolves at once.
PostStart(i, concatOk) ==
  /\ i \in 1..Len(passes)
  /\ PostReady(passes[i])
  /\ Len(passes[i].vmLeft) > 0
  /\ concatOk \in ConcatOutcomes
  /\ LET left == passes[i].vmLeft
         vmType == left[Len(left)]
         rest == SubSeq(left, 1, Len(left) - 1)
         paths == TemplatePaths([passes[i] EXCEPT !.cur = vmType])
         written == /\ options.concatOutput
                    /\ concatOk
                    /\ \A k \in 1..Len(paths) : paths[k] \in DOMAIN disk
         threw == options.concatOutput /\ ~written
         p == [passes[i] EXCEPT !.posted = TRUE, !.concatFailed = @ \/ threw,
                                !.postLog = Append(@, vmType),
                                !.open = IF options.loadCompiledTemplates
                                         THEN @ + 1 ELSE @]
     IN  /\ disk' = IF written
                    THEN Put(disk, ConcatFile(p.outputDir, vmType),
                             Concatenated(disk, paths))
                    ELSE disk
         /\ passes' =
              IF options.loadCompiledTemplates
              THEN [passes EXCEPT ![i] = [p EXCEPT !.phase = "load", !.cur = vmType,
                                                   !.vmLeft = rest]]
              ELSE [passes EXCEPT ![i] = [p EXCEPT !.vmLeft = rest,
                                   !.phase = IF Len(rest) = 0 THEN "emit" ELSE "post"]]
         /\ hist' = IF written
                    THEN [hist EXCEPT !.concat = [vmType |-> vmType, sources |-> paths,
                                                  target |-> ConcatFile(p.outputDir, vmType)]]
                    ELSE hist
  /\ UNCHANGED <<unitVars, vm, run, lastMerge, options, env, now, call, tasks, watches, watchFiles,
                 closure, dirtyFileSet, pending, chainWait, spawns,
                 vmTemplates, lastEvent>>

\* loadFiles: modules are executed in order until one cannot be read (or
\* throws, fault > 0); the result is the number of modules executed.
Executed(paths, fault) ==
  LET bad == {k \in 1..Len(paths) : paths[k] \notin DOMAIN disk \/ k = fault}
  IN  IF bad = {} THEN Len(paths)
      ELSE (CHOOSE k \in bad : \A j \in bad : k <= j) - 1

LoadFaults(n) == IF env.loadFaults THEN 0..n ELSE {0}

\* Mutant of LoadDone: next() goes on with the next locale after a failed load.
LoadDoneCarryOn(i, fault) ==
  /\ i \in 1..Len(passes)
  /\ passes[i].phase = "load"
  /\ fault \in LoadFaults(Len(passes[i].allFiles))
  /\ LET p == passes[i]
         paths == TemplatePaths(p)
         n == Executed(paths, fault)
         old == IF p.cur \in DOMAIN vmTemplates THEN vmTemplates[p.cur]
                ELSE [f \in {} |-> ""]
         done == {p.allFiles[k] : k \in 1..n}
         new == [f \in DOMAIN old \cup done |->
                   IF f \in done
                   THEN disk[GetOutputFile(options, p.outputDir, f, p.cur)]
                   ELSE old[f]]
     IN  /\ vmTemplates' = Put(vmTemplates, p.cur, new)
         /\ passes' =
              IF n = Len(paths)
              THEN [passes EXCEPT ![i].cur = "", ![i].open = @ - 1,
                      ![i].phase = IF Len(p.vmLeft) = 0 THEN "emit" ELSE "post"]
              ELSE [passes EXCEPT ![i].cur = "", ![i].open = @ - 1,
                                  ![i].phase = IF Len(p.vmLeft) = 0 THEN "emit" ELSE "post",
                                  ![i].err = TRUE, ![i].cause = "load"]
  /\ UNCHANGED <<unitVars, vm, run, lastMerge, options, env, now, disk, call, tasks, watches, watchFiles,
                 closure, dirtyFileSet, pending, chainWait, spawns,
                 lastEvent, hist>>

\* Completion of SoyVmContext.loadCompiledTemplateFiles for passes[i].cur.
LoadDone(i, fault) ==
  /\ i \in 1..Len(passes)
  /\ passes[i].phase = "load"
  /\ fault \in LoadFaults(Len(passes[i].allFiles))
  /\ LET p == passes[i]
         paths == TemplatePaths(p)
         n == Executed(paths, fault)
         old == IF p.cur \in DOMAIN vmTemplates THEN vmTemplates[p.cur]
                ELSE [f \in {} |-> ""]
         done == {p.allFiles[k] : k \in 1..n}
         new == [f \in DOMAIN old \cup done |->
                   IF f \in done
                   THEN disk[GetOutputFile(options, p.outputDir, f, p.cur)]
                   ELSE old[f]]
     IN  /\ vmTemplates' = Put(vmTemplates, p.cur, new)
         /\ passes' =
              IF n = Len(paths)
              THEN [passes EXCEPT ![i].cur = "", ![i].open = @ - 1,
                      ![i].phase = IF Len(p.vmLeft) = 0 THEN "emit" ELSE "post"]
              ELSE [passes EXCEPT ![i].cur = "", ![i].open = @ - 1,
                                  ![i].phase = "emit",
                                  ![i].err = TRUE, ![i].cause = "load"]
  /\ UNCHANGED <<unitVars, vm, run, lastMerge, options, env, now, disk, call, tasks, watches, watchFiles,
                 closure, dirtyFileSet, pending, chainWait, spawns,
                 lastEvent, hist>>

\* The arguments of emitter.emit('compile', err, !!err): the error, and the
\* flag the listeners receive as (error, success), which is !!err.
CompileEvent(err) == [err |-> err, success |-> err]

\* Mutant of EmitCompile: no try/catch around emitter.emit.
EmitCompileNoCatch(listenerThrows) ==
  IF listenerThrows THEN "threw" ELSE "returned"

\* emitCompile: emitter.emit('compile', err, !!err) inside try/catch; an
\* exception of a listener is swallowed, so the call returns normally.
EmitCompile(listenerThrows) == "returned"

\* The promise of _compileTemplateFilesAndEmit: both handlers of its .then
\* end in emitCompile, so it resolves unless emitCompile throws.
PassPromise(listenerThrows) ==
  IF EmitCompile(listenerThrows) = "returned" THEN "resolved" ELSE "rejected"

ListenerThrows == IF env.listenerThrows THEN BOOLEAN ELSE {FALSE}

\* .fail(err => console.warn(...)) at the end of every link of the chain: the
\* link resolves whatever the promise of its pass did (0: resolved, -1:
\* rejected).
LinkOutcome(passOutcome) == 0

\* Mutant of ListenersAfter: the callback stays registered (emitter.on).
ListenersAfterOn(once) == once

\* emitter.once('compile', callback): the callback is removed from the
\* listeners when the event is published for the first time.
ListenersAfter(once) == 0

\* History of a published compile event: events and callbacks count the
\* events of the call's emitter and the invocations of the call's callback
\* (2 for two or more); last says what the call's own pass went through.
\* The field emitter of the history is the emitter of the latest event.
HistEvent(h, once, last) ==
  [h EXCEPT !.events = IF @ < 2 THEN @ + 1 ELSE @,
            !.callbacks = IF @ + once < 2 THEN @ + once ELSE 2,
            !.last = last]

\* Mutant of Emit: a watch pass that failed puts its files back into the
\* dirty set.
EmitRequeue(i, throws) ==
  /\ i \in 1..Len(passes)
  /\ passes[i].phase = "emit"
  /\ throws \in ListenerThrows
  /\ lastEvent' = CompileEvent(passes[i].err)
  /\ passes' = RemoveAt(passes, i)
  /\ dirtyFileSet' = IF passes[i].kind = "watch" /\ passes[i].err
                     THEN dirtyFileSet \cup SeqToSet(passes[i].dirtyFiles)
                     ELSE dirtyFileSet
  /\ chainWait' = IF passes[i].kind = "watch" /\ chainWait = passes[i].id
                  THEN LinkOutcome(PassPromise(throws)) ELSE chainWait
  /\ call' = IF passes[i].emitter = call.n
             THEN [call EXCEPT !.once = ListenersAfter(@)] ELSE call
  /\ hist' = IF passes[i].kind = "watch"
             THEN [(IF passes[i].emitter = call.n
                    THEN HistEvent(hist, call.once, hist.last) ELSE hist) EXCEPT
                     !.lastOutcome = PassPromise(throws),
                     !.failedWatch = @ \/ passes[i].err \/ throws,
                     !.emitter = passes[i].emitter]
             ELSE [HistEvent(hist, call.once,
                             [cause |-> passes[i].cause, posted |-> passes[i].posted,
                              concatFailed |-> passes[i].concatFailed]) EXCEPT
                     !.emitter = passes[i].emitter]
  /\ UNCHANGED <<unitVars, vm, run, lastMerge, options, env, now, disk, tasks, watches, watchFiles,
                 closure, pending, spawns,
                 vmTemplates>>

\* _finalizeCompileTemplates / the rejection handler: the compile event is
\* published on the emitter the pass was given and the promise of the pass
\* settles; the link of the chain that waits on it settles with it. The
\* callback of a call listens on the emitter of that call alone.
Emit(i, throws) ==
  /\ i \in 1..Len(passes)
  /\ passes[i].phase = "emit"
  /\ throws \in ListenerThrows
  /\ lastEvent' = CompileEvent(passes[i].err)
  /\ passes' = RemoveAt(passes, i)
  /\ chainWait' = IF passes[i].kind = "watch" /\ chainWait = passes[i].id
                  THEN LinkOutcome(PassPromise(throws)) ELSE chainWait
  /\ call' = IF passes[i].emitter = call.n
             THEN [call EXCEPT !.once = ListenersAfter(@)] ELSE call
  /\ hist' = IF passes[i].kind = "watch"
             THEN [(IF passes[i].emitter = call.n
                    THEN HistEvent(hist, call.once, hist.last) ELSE hist) EXCEPT
                     !.lastOutcome = PassPromise(throws),
                     !.failedWatch = @ \/ passes[i].err \/ throws,
                     !.emitter = passes[i].emitter]
             ELSE [HistEvent(hist, call.once,
                             [cause |-> passes[i].cause, posted |-> passes[i].posted,
                              concatFailed |-> passes[i].concatFailed]) EXCEPT
                     !.emitter = passes[i].emitter]
  /\ UNCHANGED <<unitVars, vm, run, lastMerge, options, env, now, disk, tasks, watches, watchFiles,
                 closure, dirtyFileSet, pending, spawns,
                 vmTemplates>>

\* ----------------------------------------------------------- artifact cache
PrecompiledRoot == <<options.precompiledDir, 0>>

\* The precompiled file of (file, vmType) in _preparePrecompiledFile.
PrecompiledFileName(file, vmType) ==
  GetOutputFile(options, PrecompiledRoot, file, vmType)

\* The output file of (file, vmType) in _preparePrecompiledFile.
OutputFileName(file, vmType) ==
  GetOutputFile(options, call.outputDir, file, vmType)

\* fs.stat of the precompiled file: it errors when the file is not there or
\* the precompiled root cannot be read.
StatOk(path) == env.rootReadable /\ path \in DOMAIN disk

\* Mutant of StatErrorResult: a stat error counts as a precompiled file.
StatErrorResultTrue == TRUE

\* The rejection handler of the stat promise, () => false.
StatErrorResult == FALSE

\* One (file, vmType) lookup of _preparePrecompiledFile after fs.stat: the
\* next state of the lookup.
AfterStat(file, vmType) ==
  LET pre == PrecompiledFileName(file, vmType)
      out == OutputFileName(file, vmType)
  IN  IF ~StatOk(pre) THEN (IF StatErrorResult THEN "ok" ELSE "absent")
      ELSE IF out # pre THEN "copy"
      ELSE "ok"

StatDone(file, vmType) ==
  /\ <<file, vmType>> \in DOMAIN tasks
  /\ tasks[<<file, vmType>>] = "stat"
  /\ tasks' = [tasks EXCEPT ![<<file, vmType>>] = AfterStat(file, vmType)]
  /\ UNCHANGED <<unitVars, vm, run, lastMerge, options, env, now, disk, call, watches, watchFiles,
                 closure, dirtyFileSet, pending, chainWait, passes, spawns,
                 vmTemplates, lastEvent, hist>>

\* What fs.mkdirs + copy leave at the output path.
CopyInto(d, pre, out) == Put(d, out, d[pre])

CopyOutcomes == IF env.copyFaults THEN BOOLEAN ELSE {TRUE}

\* Completion of mkdirs and copy for one lookup; either can fail, which
\* rejects the lookup's promise.
CopyDone(file, vmType, ok) ==
  /\ <<file, vmType>> \in DOMAIN tasks
  /\ tasks[<<file, vmType>>] = "copy"
  /\ ok \in CopyOutcomes
  /\ LET pre == PrecompiledFileName(file, vmType)
         out == OutputFileName(file, vmType)
     IN  IF ok
         THEN /\ disk' = CopyInto(disk, pre, out)
              /\ tasks' = [tasks EXCEPT ![<<file, vmType>>] = "ok"]
         ELSE /\ disk' = disk
              /\ tasks' = [tasks EXCEPT ![<<file, vmType>>] = "failed"]
  /\ UNCHANGED <<unitVars, vm, run, lastMerge, options, env, now, call, watches, watchFiles,
                 closure, dirtyFileSet, pending, chainWait, passes, spawns,
                 vmTemplates, lastEvent, hist>>

\* Mutant of FileOk: one precompiled locale is enough.
FileOkAny(file) ==
  \E v \in SeqToSet(VmTypesOf(options)) : tasks[<<file, v>>] = "ok"

\* _preparePrecompiledFile resolves array.every(Boolean) over the vmTypes.
FileOk(file) ==
  \A v \in SeqToSet(VmTypesOf(options)) : tasks[<<file, v>>] = "ok"

\* A filter that gives up only the files whose own lookup was rejected.
FilterResultPerFile(files) ==
  FilterSeq(files, {f \in SeqToSet(files) : ~FileOk(f)})

\* The result of _maybeUsePrecompiledFiles once Q.all has settled: the files
\* without precompiled versions, or every file when a lookup was rejected
\* (the .fail handler).
FilterResult(files) ==
  IF \E t \in DOMAIN tasks : tasks[t] = "failed" THEN files
  ELSE FilterSeq(files, {f \in SeqToSet(files) : ~FileOk(f)})

\* Q.all settles when every lookup has resolved, or as soon as one rejects.
FilterSettled ==
  \/ \E t \in DOMAIN tasks : tasks[t] = "failed"
  \/ \A t \in DOMAIN tasks : tasks[t] \in {"ok", "absent"}

FilterSettle ==
  /\ call.pc = "filtering"
  /\ FilterSettled
  /\ call' = [call EXCEPT !.pc = "filtered", !.dirty = FilterResult(call.files)]
  /\ UNCHANGED <<unitVars, vm, run, lastMerge, options, env, now, disk, tasks, watches, watchFiles,
                 closure, dirtyFileSet, pending, chainWait, passes, spawns,
                 vmTemplates, lastEvent, hist>>

\* ------------------------------------------------------------ compile call
\* History: no pass of the call has published yet.
NoPass == [cause |-> "none", posted |-> FALSE, concatFailed |-> FALSE]

\* compileTemplates(inputDir, callback): a new emitter with the callback as
\* its once-listener, and findFiles starts. The model lets a caller call
\* again once the previous call has published its event.
CallOver ==
  \/ call.pc = "failed"
  \/ /\ call.pc = "launched"
     /\ InFlight("initial") = {}
     /\ \A t \in DOMAIN tasks : tasks[t] \in {"ok", "absent", "failed"}

CompileTemplates ==
  /\ \/ call.pc = "idle"
     \/ CallOver
  /\ call.n < env.calls
  /\ call' = [call EXCEPT !.pc = "finding", !.n = @ + 1, !.once = 1]
  /\ hist' = [hist EXCEPT !.events = 0, !.callbacks = 0, !.last = NoPass]
  /\ UNCHANGED <<unitVars, vm, run, lastMerge, options, env, now, disk, tasks, watches, watchFiles,
                 closure, dirtyFileSet, pending, chainWait, passes, spawns,
                 vmTemplates, lastEvent>>

\* _maybeUsePrecompiledFiles up to its first asynchronous step: without a
\* precompiledDir it resolves with the files themselves.
StartFilter(c) ==
  IF options.precompiledDir = NoDir
  THEN [c EXCEPT !.pc = "filtered", !.dirty = c.files]
  ELSE [c EXCEPT !.pc = "filtering"]

\* History of a call: whether every file had a readable precompiled artifact
\* for every vmType when the lookups started.
AllPrecompiled ==
  \A f \in Files : \A v \in SeqToSet(VmTypesOf(options)) :
    StatOk(PrecompiledFileName(f, v))

\* The callback of findFiles in _compileTemplatesAndEmit.
FindFilesDone(ok) ==
  /\ call.pc = "finding"
  /\ IF ~ok
     THEN /\ lastEvent' = CompileEvent(TRUE)
          /\ call' = [call EXCEPT !.pc = "failed", !.once = ListenersAfter(@)]
          /\ tasks' = tasks
          /\ hist' = [HistEvent(hist, call.once,
                                [cause |-> "discovery", posted |-> FALSE,
                                 concatFailed |-> FALSE]) EXCEPT
                        !.emitter = call.n]
     ELSE /\ lastEvent' = lastEvent
          /\ hist' = [hist EXCEPT !.cached = AllPrecompiled, !.spawns0 = spawns.n]
          /\ call' = StartFilter([call EXCEPT !.files = FileList,
                                    !.outputDir = CreateOutputDir(options, now)])
          /\ tasks' = IF options.precompiledDir = NoDir THEN tasks
                      ELSE [t \in Files \X SeqToSet(VmTypesOf(options)) |-> "stat"]
  /\ UNCHANGED <<unitVars, vm, run, lastMerge, options, env, now, disk, watches, watchFiles,
                 closure, dirtyFileSet, pending, chainWait, passes, spawns,
                 vmTemplates>>

\* ------------------------------------------------------ change-watch setup
\* A setup without the test of l.537.
RegisteredIgnored(file) == FALSE

\* `if (self._watches[file]) return;` a time stamp of 0 is falsy.
Registered(file) == watches[file] # 0

WatchFailSets(new) == IF env.watchFaults THEN SUBSET new ELSE {{}}

\* A setup whose loop ends at the first fs.watchFile that throws.
WatchedAfterAbort(new, failed) == IF failed = {} THEN new ELSE {}

\* The try/catch of l.538-580 is inside the forEach: the files whose
\* fs.watchFile threw are logged, the others have their callback.
WatchedAfter(new, failed) == new \ failed

\* Mutant of SetupAndLaunch: the watch callbacks see the directories, the
\* file list and the emitter of the latest call.
SetupAndLaunchRebind(failed) ==
  /\ call.pc = "filtered"
  /\ LET new == IF options.allowDynamicRecompile
                THEN {f \in SeqToSet(call.files) : ~Registered(f)} ELSE {}
         p == NewPass(NewId, "initial", InputDir, call.outputDir,
                      call.files, call.dirty)
     IN  /\ failed \in WatchFailSets(new)
         /\ watches' = [f \in Files |-> IF f \in new THEN now ELSE watches[f]]
         /\ watchFiles' = watchFiles \cup WatchedAfter(new, failed)
         /\ closure' = IF options.allowDynamicRecompile
                       THEN [inputDir |-> InputDir, outputDir |-> call.outputDir,
                             files |-> call.files, emitter |-> call.n]
                       ELSE closure
         /\ IF new # {}
            THEN dirtyFileSet' = {} /\ pending' = 0 /\ chainWait' = 0
            ELSE UNCHANGED <<dirtyFileSet, pending, chainWait>>
         /\ passes' = Append(passes, p)
         /\ spawns' = SpawnsAfter(p)
         /\ hist' = [hist EXCEPT
                       !.stamp = [f \in Files |-> IF f \in new THEN now ELSE @[f]],
                       !.watchers = [f \in Files |->
                                       IF f \in WatchedAfter(new, failed)
                                       THEN @[f] + 1 ELSE @[f]],
                       !.watchFailed = @ \cup failed,
                       !.first = IF @ = NoClosure
                                 THEN [inputDir |-> p.inputDir, outputDir |-> p.outputDir,
                                       files |-> p.allFiles, emitter |-> p.emitter]
                                 ELSE @]
  /\ call' = [call EXCEPT !.pc = "launched"]
  /\ UNCHANGED <<unitVars, vm, run, lastMerge, options, env, now, disk, tasks, vmTemplates, lastEvent>>

\* The continuation of _maybeUsePrecompiledFiles in _compileTemplatesAndEmit:
\* _maybeSetupDynamicRecompile, then the initial pass is launched.
SetupAndLaunch(failed) ==
  /\ call.pc = "filtered"
  /\ LET new == IF options.allowDynamicRecompile
                THEN {f \in SeqToSet(call.files) : ~Registered(f)} ELSE {}
         p == NewPass(NewId, "initial", InputDir, call.outputDir,
                      call.files, call.dirty)
     IN  /\ failed \in WatchFailSets(new)
         /\ watches' = [f \in Files |-> IF f \in new THEN now ELSE watches[f]]
         /\ watchFiles' = watchFiles \cup WatchedAfter(new, failed)
         /\ IF new # {}
            THEN /\ dirtyFileSet' = {} /\ pending' = 0 /\ chainWait' = 0
                 /\ closure' = [inputDir |-> InputDir, outputDir |-> call.outputDir,
                                files |-> call.files, emitter |-> call.n]
            ELSE UNCHANGED <<closure, dirtyFileSet, pending, chainWait>>
         /\ passes' = Append(passes, p)
         /\ spawns' = SpawnsAfter(p)
         /\ hist' = [hist EXCEPT
                       !.stamp = [f \in Files |-> IF f \in new THEN now ELSE @[f]],
                       !.watchers = [f \in Files |->
                                       IF f \in WatchedAfter(new, failed)
                                       THEN @[f] + 1 ELSE @[f]],
                       !.watchFailed = @ \cup failed,
                       !.first = IF @ = NoClosure
                                 THEN [inputDir |-> p.inputDir, outputDir |-> p.outputDir,
                                       files |-> p.allFiles, emitter |-> p.emitter]
                                 ELSE @]
  /\ call' = [call EXCEPT !.pc = "launched"]
  /\ UNCHANGED <<unitVars, vm, run, lastMerge, options, env, now, disk, tasks, vmTemplates, lastEvent>>

\* --------------------------------------------------- change-watch scheduler
\* Mutant of Spurious: an event exactly DEBOUNCE_MS after the last one is
\* dropped too.
SpuriousInclusive(file) == now - watches[file] <= DEBOUNCE_MS

\* `if (now - self._watches[file] < 1000) return`: a spurious change event.
Spurious(file) == now - watches[file] < DEBOUNCE_MS

\* History of a notification. It is kept apart from the code's variables: a
\* notification counts as accepted when at least DEBOUNCE_MS have passed
\* since the file's last accepted one (or its registration). An accepted
\* notification waits for a pass. The burst is the set of files accepted at
\* the instant of the latest accepted notification, burstPasses the number
\* of passes launched since then over a file of the burst.
HistNotify(file) ==
  IF now - hist.stamp[file] >= DEBOUNCE_MS
  THEN [hist EXCEPT !.stamp[file] = now,
                    !.acceptedSince = @ \cup {file},
                    !.waiting[file] = @ + 1,
                    !.burstAt = now,
                    !.burst = IF hist.burstAt = now THEN @ \cup {file} ELSE {file},
                    !.burstPasses = IF hist.burstAt = now THEN @ ELSE 0]
  ELSE hist

\* The callback given to fs.watchFile for `file`.
Notify(file) ==
  /\ file \in watchFiles
  /\ IF Spurious(file)
     THEN UNCHANGED <<dirtyFileSet, watches, pending>>
     ELSE /\ dirtyFileSet' = dirtyFileSet \cup {file}
          /\ watches' = [watches EXCEPT ![file] = now]
          /\ pending' = pending + 1
  /\ hist' = HistNotify(file)
  /\ UNCHANGED <<unitVars, vm, run, lastMerge, options, env, now, disk, call, tasks, watchFiles, closure,
                 chainWait, passes, spawns, vmTemplates, lastEvent>>

\* Mutant of WatchPass: every watched file is recompiled.
WatchPassAllFiles(id) ==
  [NewPass(id, "watch", closure.inputDir, closure.outputDir, closure.files,
           closure.files) EXCEPT !.emitter = closure.emitter]

\* The pass a continuation launches: the captured dirty files, compiled in
\* the directories and over the file list of the call that set the watch,
\* publishing on the emitter of that call.
WatchPass(id) ==
  [NewPass(id, "watch", closure.inputDir, closure.outputDir, closure.files,
           KeysOf(dirtyFileSet)) EXCEPT !.emitter = closure.emitter]

\* Mutant of ContinuationResult: the continuation forgets to return the
\* promise of the pass.
ContinuationResultDropped(id) == 0

\* The value the continuation returns, which the chain's tail waits on: the
\* promise of the launched pass.
ContinuationResult(id) == id

\* currentCompilePromise.then(...): the continuation runs once the previous
\* link of the chain has resolved.
ChainReady == chainWait = 0

\* History of a launched watch pass p: the notifications it covers.
HistCapture(p) ==
  LET d == SeqToSet(p.dirtyFiles)
  IN  [hist EXCEPT !.acceptedSince = @ \ d,
                   !.lastAccepted = hist.acceptedSince,
                   !.waiting = [f \in Files |-> IF f \in d THEN 0 ELSE @[f]],
                   !.served = [f \in Files |-> IF f \in d THEN hist.waiting[f] ELSE 0],
                   !.burstPasses = IF d \cap hist.burst # {} THEN @ + 1 ELSE @]

\* A continuation that launches a pass whatever it finds.
NothingDirtyIgnored(set) == FALSE

\* `if (!dirtyFiles.length) return null` over Object.keys(dirtyFileSet).
NothingDirty(set) == set = {}

\* The continuation queued by an accepted notification.
RunContinuation ==
  /\ pending > 0
  /\ ChainReady
  /\ pending' = pending - 1
  /\ IF NothingDirty(dirtyFileSet)
     THEN /\ chainWait' = 0
          /\ UNCHANGED <<dirtyFileSet, passes, spawns, hist>>
     ELSE /\ dirtyFileSet' = {}
          /\ passes' = Append(passes, WatchPass(NewId))
          /\ spawns' = SpawnsAfter(WatchPass(NewId))
          /\ chainWait' = ContinuationResult(NewId)
          /\ hist' = HistCapture(WatchPass(NewId))
  /\ UNCHANGED <<unitVars, vm, run, lastMerge, options, env, now, disk, call, tasks, watches, watchFiles,
                 closure, vmTemplates, lastEvent>>

\* Time passes. The clock is read by _createOutputDir, at registration and
\* by the watch callbacks, so only time after the registration is observed.
Tick ==
  /\ call.pc = "launched"
  /\ now + TimeStep <= StartTime + MaxTicks * TimeStep
  /\ now' = now + TimeStep
  /\ UNCHANGED <<unitVars, vm, run, lastMerge, options, env, disk, call, tasks, watches, watchFiles, closure,
                 dirtyFileSet, pending, chainWait, passes, spawns,
                 vmTemplates, lastEvent, hist>>

\* --------------------------------------------------------- sandbox contexts
\* The names of the contexts: the default one and one locale.
VmNames == {DEFAULT_VM_CONTEXT, "es"}

\* The file lists given to loadCompiledTemplateFiles: every pass loads all
\* the compiled files.
LoadLists == {FileList}

\* The names asked of get: the template of the first file, and one no file
\* defines.
TemplateNames == {FileList[1], "no.such.template"}

\* new SoyVmContext(name, options): an empty sandbox, an empty template
\* cache, not initialized. globals and cache hold function references (the
\* id of the load that defined them, 0 for none), globals those of the
\* templates that get is asked for; registry counts the
\* registrations of each file's delegate template (2 for two or more);
\* supportRuns and stale are history: runs of the support code (2 for two or
\* more), and the cache entries stored before the latest successfully
\* completed load. soy says whether the raw context defines the soy support
\* code; since is the number of loads started when the raw context was last
\* replaced, so that a function of a load up to since was defined in a
\* replaced context.
NewContext ==
  [ initialized |-> FALSE, supportRuns |-> 0, soy |-> FALSE, since |-> 0,
    globals |-> [f \in Files \cap TemplateNames |-> 0],
    registry |-> [f \in Files |-> 0],
    cache |-> [n \in TemplateNames |-> 0],
    stale |-> [n \in TemplateNames |-> FALSE] ]

\* Mutant of GetSoyVmContext: a new context on every call.
GetSoyVmContextAlwaysNew(ctxs, v) ==
  [x \in DOMAIN ctxs \cup {v} |-> IF x = v THEN NewContext ELSE ctxs[x]]

\* SoyCompiler.prototype.getSoyVmContext: the context of vmType, created on
\* first use.
GetSoyVmContext(ctxs, v) ==
  IF v \in DOMAIN ctxs THEN ctxs
  ELSE [x \in DOMAIN ctxs \cup {v} |-> IF x = v THEN NewContext ELSE ctxs[x]]

\* History: SoyVmContext objects constructed for v.
MadeAfter(made, ctxs, v) ==
  IF GetSoyVmContext(ctxs, v) = ctxs THEN made ELSE [made EXCEPT ![v] = @ + 1]

\* RESET_DELTEMPLATE_REGISTRY_CODE: both registries become empty.
ResetRegistry(c) == [c EXCEPT !.registry = [f \in Files |-> 0]]

\* loadCompiledTemplateFiles up to its first asynchronous step: an
\* initialized context has its registries reset at once, any other context
\* gets the support code first. The reset code assigns to properties of
\* `soy` and throws in a raw context that does not define it. The result is
\* the phase of the load and the context.
StartPhase(c) ==
  IF ~c.initialized THEN <<"support", c>>
  ELSE IF c.soy THEN <<"modules", ResetRegistry(c)>>
  ELSE <<"reset", c>>

LoadIds == 1..MaxLoads

\* SoyVmContext.prototype.loadCompiledTemplateFiles(files, callback), called
\* on the context of v.
LoadStart(v, files) ==
  /\ vm.started < MaxLoads
  /\ LET cs == GetSoyVmContext(vm.ctx, v)
         sp == StartPhase(cs[v])
         id == vm.started + 1
     IN  vm' = [vm EXCEPT
                  !.ctx = [cs EXCEPT ![v] = sp[2]],
                  !.made = MadeAfter(vm.made, vm.ctx, v),
                  !.started = id,
                  !.loads = @ \cup {[id |-> id, ctx |-> v, files |-> files,
                                     phase |-> sp[1], i |-> 0]}]
  /\ UNCHANGED <<run, lastMerge, options, pipelineVars, unitVars>>

\* loadFiles over the support files has settled for load l. The support
\* files are read once per process (supportFilePromises) and executed in
\* order, each run of loadFiles executing them in the context again; only a
\* complete run sets _contextInitialized. soyutils defines both delegate
\* registries empty when it is executed. A failed run (a file that cannot be
\* read or that throws) ends the load with callback(err).
SupportDone(l, ok) ==
  /\ l \in vm.loads
  /\ l.phase = "support"
  /\ LET c == vm.ctx[l.ctx]
     IN  IF ok
         THEN vm' = [vm EXCEPT
                !.ctx[l.ctx] = [ResetRegistry(c) EXCEPT
                                  !.initialized = TRUE, !.soy = TRUE,
                                  !.supportRuns = IF @ < 2 THEN @ + 1 ELSE @],
                !.loads = (@ \ {l}) \cup {[l EXCEPT !.phase = "modules"]}]
         ELSE vm' = [vm EXCEPT
                !.ctx[l.ctx].supportRuns = IF @ < 2 THEN @ + 1 ELSE @,
                !.loads = @ \ {l},
                !.lastDone = [ctx |-> l.ctx, files |-> l.files,
                              ok |-> FALSE, registry |-> NewContext.registry]]
  /\ UNCHANGED <<run, lastMerge, options, pipelineVars, unitVars>>

\* The reset code threw for load l: the load ends with callback(err).
ResetFailed(l) ==
  /\ l \in vm.loads
  /\ l.phase = "reset"
  /\ vm' = [vm EXCEPT
        !.loads = @ \ {l},
        !.lastDone = [ctx |-> l.ctx, files |-> l.files,
                      ok |-> FALSE, registry |-> NewContext.registry]]
  /\ UNCHANGED <<run, lastMerge, options, pipelineVars, unitVars>>

\* vm.runInContext(result.contents, context, result.path) for the module of
\* file f in load l: the module defines its template (a new function) and
\* registers its delegate template.
RunModule(c, f, l) ==
  [c EXCEPT !.globals = [n \in DOMAIN @ |-> IF n = f THEN l.id ELSE @[n]],
            !.registry[f] = IF @ < 2 THEN @ + 1 ELSE @]

\* Mutant of CacheAfterLoad: the cache is kept.
CacheKept(c) == c

\* `this._templateCache = {}` when all files have been loaded.
CacheAfterLoad(c) == [c EXCEPT !.cache = [n \in TemplateNames |-> 0]]

\* History: the entries the cache holds when a load has completed were
\* stored before that load completed.
LoadCompleted(c) == [c EXCEPT !.stale = [n \in TemplateNames |-> c.cache[n] # 0]]

\* this.getContext() of the SoyVmContext the load was called on.
TargetContext(l) == l.ctx

\* One step of loadFiles over the caller's files for load l: the next file
\* has been read and is executed (ok), or it cannot be read or throws, which
\* ends the load with callback(err). After the last file the cache is
\* cleared and callback(null, true) is called, in the same turn.
ModuleStep(l, ok) ==
  /\ l \in vm.loads
  /\ l.phase = "modules"
  /\ TargetContext(l) \in DOMAIN vm.ctx
  /\ LET t == TargetContext(l)
         f == l.files[l.i + 1]
         c == RunModule(vm.ctx[t], f, l)
         last == l.i + 1 = Len(l.files)
     IN  IF ~ok
         THEN vm' = [vm EXCEPT
                !.loads = @ \ {l},
                !.lastDone = [ctx |-> l.ctx, files |-> l.files,
                              ok |-> FALSE, registry |-> NewContext.registry]]
         ELSE IF last
         THEN vm' = [vm EXCEPT
                !.ctx = [[vm.ctx EXCEPT ![t] = c] EXCEPT
                           ![l.ctx] = LoadCompleted(CacheAfterLoad(@))],
                !.execd = @ \cup ({<<l.ctx, f>>} \cap (VmNames \X TemplateNames)),
                !.loads = @ \ {l},
                !.lastDone = [ctx |-> l.ctx, files |-> l.files,
                              ok |-> TRUE, registry |-> c.registry]]
         ELSE vm' = [vm EXCEPT
                !.ctx[t] = c,
                !.execd = @ \cup ({<<l.ctx, f>>} \cap (VmNames \X TemplateNames)),
                !.loads = (@ \ {l}) \cup {[l EXCEPT !.i = @ + 1]}]
  /\ UNCHANGED <<run, lastMerge, options, pipelineVars, unitVars>>

\* vm.runInContext(templateName, context): the function the name denotes in
\* the context, 0 when the evaluation throws or yields nothing.
Resolve(c, name) == IF name \in DOMAIN c.globals THEN c.globals[name] ELSE 0

\* Mutant of GetResult: the cache is not consulted.
GetResultNoCache(c, name) ==
  IF ~options.loadCompiledTemplates
  THEN [outcome |-> "config", fn |-> 0, cache |-> c.cache]
  ELSE IF Resolve(c, name) = 0
  THEN [outcome |-> "unknown", fn |-> 0, cache |-> c.cache]
  ELSE [outcome |-> "fn", fn |-> Resolve(c, name),
        cache |-> [c.cache EXCEPT ![name] = Resolve(c, name)]]

\* SoyVmContext.prototype.get: what it returns or throws, and the cache it
\* leaves.
GetResult(c, name) ==
  IF ~options.loadCompiledTemplates
  THEN [outcome |-> "config", fn |-> 0, cache |-> c.cache]
  ELSE IF c.cache[name] # 0
  THEN [outcome |-> "fn", fn |-> c.cache[name], cache |-> c.cache]
  ELSE IF Resolve(c, name) = 0
  THEN [outcome |-> "unknown", fn |-> 0, cache |-> c.cache]
  ELSE [outcome |-> "fn", fn |-> Resolve(c, name),
        cache |-> [c.cache EXCEPT ![name] = Resolve(c, name)]]

\* SoyCompiler.prototype.get(templateName, vmType).
Get(v, name) ==
  /\ LET cs == GetSoyVmContext(vm.ctx, v)
         c == cs[v]
         r == GetResult(c, name)
         st == [n \in TemplateNames |->
                  IF r.cache[n] # c.cache[n] THEN FALSE ELSE c.stale[n]]
     IN  vm' = [vm EXCEPT
                  !.ctx = [cs EXCEPT ![v].cache = r.cache, ![v].stale = st],
                  !.made = MadeAfter(vm.made, vm.ctx, v),
                  !.lastGet = [ctx |-> v, name |-> name, outcome |-> r.outcome,
                               fn |-> r.fn, cachedBefore |-> c.cache[name],
                               globalBefore |-> Resolve(c, name),
                               cachedAfter |-> r.cache[name],
                               stale |-> r.outcome = "fn" /\ st[name],
                               since |-> c.since]]
  /\ UNCHANGED <<run, lastMerge, options, pipelineVars, unitVars>>

\* A setContext after which the sandbox is as new for the raw context it is
\* given.
SetContextFollows(v, hasSoy) ==
  /\ \A l \in vm.loads : l.ctx # v
  /\ LET cs == GetSoyVmContext(vm.ctx, v)
     IN  vm' = [vm EXCEPT
                  !.ctx = [cs EXCEPT ![v] = [NewContext EXCEPT
                             !.initialized = hasSoy, !.soy = hasSoy,
                             !.since = vm.started]],
                  !.made = MadeAfter(vm.made, vm.ctx, v)]
  /\ UNCHANGED <<run, lastMerge, options, pipelineVars, unitVars>>

\* SoyVmContext.prototype.setContext(context) on the sandbox of v, with a
\* raw context of the caller that holds none of the templates and does or
\* does not define the soy support code: `this._context = context`, nothing
\* else. It is called while no load of the sandbox is in flight.
SetContext(v, hasSoy) ==
  /\ \A l \in vm.loads : l.ctx # v
  /\ LET cs == GetSoyVmContext(vm.ctx, v)
     IN  vm' = [vm EXCEPT
                  !.ctx = [cs EXCEPT ![v] = [@ EXCEPT
                             !.globals = NewContext.globals,
                             !.registry = NewContext.registry,
                             !.supportRuns = 0,
                             !.soy = hasSoy,
                             !.since = vm.started]],
                  !.made = MadeAfter(vm.made, vm.ctx, v)]
  /\ UNCHANGED <<run, lastMerge, options, pipelineVars, unitVars>>

\* ------------------------------------------------------------- compiler run
\* Mutant of Settle: a settled deferred is settled again.
SettleAgain(state, outcome) == outcome

\* deferred.resolve / deferred.reject: only a pending deferred settles.
Settle(state, outcome) == IF state = "pending" THEN outcome ELSE state

\* runCompiler: with dirty files java is spawned and the deferred is
\* pending; without, the run is resolved at once and there is no process.
RunCompiler(dirty) ==
  /\ run.state = "idle"
  /\ run' = [run EXCEPT !.state = IF dirty THEN "pending" ELSE "resolved"]
  /\ UNCHANGED <<vm, lastMerge, options, pipelineVars, unitVars>>

\* An error object that takes the text of stderr along.
CompileErrorWithStderr(stderr) ==
  [message |-> "Error compiling templates", stderr |-> stderr]

\* new Error('Error compiling templates'): "a generic error object"; stderr
\* is what the error carries of the text of the process, nothing.
CompileError(stderr) == [message |-> "Error compiling templates", stderr |-> ""]

\* onExit(exitCode), called by the 'exit' event with the exit code and by
\* the 'error' event with 1. logged is the text given to console.error.
OnExit(r, exitCode) ==
  IF r.terminated THEN r
  ELSE IF exitCode # 0
  THEN [r EXCEPT !.terminated = TRUE, !.state = Settle(@, "rejected"),
                 !.logged = r.stderr,
                 !.error = IF r.state = "pending" THEN CompileError(r.stderr) ELSE @]
  ELSE [r EXCEPT !.state = Settle(@, "resolved")]

\* cp.stderr.on('data'): stderr += data. One chunk at most.
StderrData ==
  /\ run.state # "idle"
  /\ run.first # -1 \/ run.state = "pending"
  /\ run.stderr = ""
  /\ run' = [run EXCEPT !.stderr = @ \o "syntax error"]
  /\ UNCHANGED <<vm, lastMerge, options, pipelineVars, unitVars>>

\* cp.on('error'): stderr += String(err), then onExit(1).
ProcessError ==
  /\ run.state # "idle"
  /\ run.first # -1 \/ run.state = "pending"
  /\ run.signals < MaxSignals
  /\ run' = [OnExit([run EXCEPT !.stderr = @ \o "Error: spawn java ENOENT"], 1) EXCEPT
               !.signals = @ + 1,
               !.first = IF @ = -1 THEN 1 ELSE @,
               !.last = 1]
  /\ UNCHANGED <<vm, lastMerge, options, pipelineVars, unitVars>>

\* The child process emits 'exit' with a code, or 'error'.
Signal(exitCode) ==
  /\ run.state # "idle"
  /\ run.first # -1 \/ run.state = "pending"
  /\ run.signals < MaxSignals
  /\ run' = [OnExit(run, exitCode) EXCEPT
               !.signals = @ + 1,
               !.first = IF @ = -1 THEN exitCode ELSE @,
               !.last = exitCode]
  /\ UNCHANGED <<vm, lastMerge, options, pipelineVars, unitVars>>

\* ------------------------------------------------------------ option merge
\* The methods of a SoyOptions object (merge is an own property holding an
\* arrow function), and the value that is this object's own method.
Methods == {"merge"}
OwnMethod(key) == "own " \o key

\* The (key, value) pairs of the objects given to setOptions; booleans are
\* written as in the source text. "out" is a relative directory and NoDir is
\* null.
MergePairs ==
  { <<"outputDir", "out">>, <<"outputDir", NoDir>>,
    <<"loadCompiledTemplates", "false">>,
    <<"merge", OwnMethod("merge")>>, <<"merge", "another function">>,
    <<"noSuchOption", "1">> }

\* The objects given to setOptions: up to MaxKeys keys, in insertion order.
RECURSIVE ObjectsOf(_)
ObjectsOf(n) ==
  IF n = 0 THEN {<<>>}
  ELSE ObjectsOf(n - 1) \cup
       { Append(o, kv) : o \in ObjectsOf(n - 1), kv \in MergePairs }

MergeInputs ==
  { o \in ObjectsOf(MaxKeys) :
      \A i, j \in 1..Len(o) : i # j => o[i][1] # o[j][1] }

\* The value a literal denotes.
ValueOf(v) == IF v = "true" THEN TRUE ELSE IF v = "false" THEN FALSE ELSE v

\* path.resolve: an absolute directory is itself, a relative one is joined
\* to the working directory.
PathResolve(d) == IF d = "out" THEN "/cwd/out" ELSE d

\* const { tmpDir, outputDir, ...otherOpts } = opts
OtherOpts(opts) ==
  LET keep == {i \in 1..Len(opts) : opts[i][1] \notin {"tmpDir", "outputDir"}}
      Nth(k) == CHOOSE i \in keep : Cardinality({j \in keep : j < i}) = k - 1
  IN  [k \in 1..Cardinality(keep) |-> opts[Nth(k)]]

\* A merge that leaves the directories to the end, after the keys.
WithDirsDeferred(o, opts) == o

\* `if (tmpDir) ...; if (outputDir) ...`: a truthy directory is resolved and
\* stored.
WithDirs(o, opts) ==
  LET D(key) == {opts[i][2] : i \in {j \in 1..Len(opts) : opts[j][1] = key}}
      Set(r, key) == IF D(key) = {} \/ D(key) = {NoDir} THEN r
                     ELSE [r EXCEPT ![key] = PathResolve(CHOOSE d \in D(key) : TRUE)]
  IN  Set(Set(o, "tmpDir"), "outputDir")

\* `key in this`
InThis(o, key) == key \in DOMAIN o \/ key \in Methods

\* Mutant of InvalidKey: only unknown keys are refused.
InvalidKeyUnknownOnly(o, key) == ~InThis(o, key)

\* `!(key in this) || typeof this[key] === 'function'`
InvalidKey(o, key) == ~InThis(o, key) \/ key \in Methods

\* The forEach over the keys of otherOpts: a key holding this object's own
\* method is skipped, an invalid key throws (the keys before it stay
\* assigned), any other key is assigned.
RECURSIVE MergeKeys(_, _)
MergeKeys(o, kvs) ==
  IF kvs = <<>> THEN [options |-> o, outcome |-> "ok", key |-> ""]
  ELSE LET k == Head(kvs)[1]
           v == Head(kvs)[2]
       IN  IF k \in Methods /\ v = OwnMethod(k) THEN MergeKeys(o, Tail(kvs))
           ELSE IF InvalidKey(o, k)
           THEN [options |-> o, outcome |-> "threw", key |-> k]
           ELSE MergeKeys(Put(o, k, ValueOf(v)), Tail(kvs))

\* SoyCompiler.prototype.setOptions(opts): this._options.merge(opts).
SetOptions(opts) ==
  /\ opts \in MergeInputs
  /\ LET r == MergeKeys(WithDirs(options, opts), OtherOpts(opts))
     IN  /\ options' = r.options
         /\ lastMerge' = [opts |-> opts, outcome |-> r.outcome, key |-> r.key]
  /\ UNCHANGED <<vm, run, pipelineVars, unitVars>>

\* ------------------------------------------------------- default options
\* SoyCompiler.js:66-68. The objects of class SoyOptions that
\* getDefaultOptions has returned live in defaults.objs, each with the
\* values it has now; reference 0 is this._options of the compiler. The
\* _options of any other compiler is one of them, since the constructor
\* (l.47-60) takes it from getDefaultOptions. defaults.last is the last
\* result: the reference (-1 before the first call), its values when it was
\* returned, and how many objects had been returned before.
InitDefaults ==
  [objs |-> <<>>, last |-> [ref |-> -1, value |-> DefaultOptions, known |-> 0]]

\* A getDefaultOptions that hands out this._options.
GetDefaultOptionsLive(o, objs) == [ref |-> 0, value |-> o]

\* return new SoyOptions(): a new object, with the field initializers of
\* SoyOptions.js as its values.
GetDefaultOptionsResult(o, objs) ==
  [ref |-> Len(objs) + 1, value |-> DefaultOptions]

GetDefaultOptions ==
  /\ Len(defaults.objs) < MaxDefaults
  /\ LET r == GetDefaultOptionsResult(options, defaults.objs)
     IN  defaults' =
           [objs |-> IF r.ref > Len(defaults.objs)
                     THEN Append(defaults.objs, r.value) ELSE defaults.objs,
            last |-> [ref |-> r.ref, value |-> r.value,
                      known |-> Len(defaults.objs)]]
  /\ UNCHANGED <<support, lf, vm, run, lastMerge, options, pipelineVars>>

\* The holder of a returned object changes it with merge: a caller, or the
\* setOptions of the compiler whose _options it is.
MergeReturned(k, kv) ==
  /\ k \in 1..Len(defaults.objs)
  /\ kv \in MergePairs
  /\ LET r == MergeKeys(WithDirs(defaults.objs[k], <<kv>>), OtherOpts(<<kv>>))
     IN  defaults' = [defaults EXCEPT !.objs[k] = r.options]
  /\ UNCHANGED <<support, lf, vm, run, lastMerge, options, pipelineVars>>

\* ------------------------------------------------- support code, shared
\* SoyVmContext.js:84-97. supportFilePromises is a variable of the module:
\* every context of every compiler of the process reads it. Two compilers,
\* "A" with the default soyUtilsPath and "B" with one of its own.
Instances == {"A", "B"}
PATH_TO_SOY_UTILS == "soyutils_usegoog.js"
SoyUtilsPathOf(x) == IF x = "A" THEN PATH_TO_SOY_UTILS ELSE "b/soyutils.js"
UtilsPaths == {SoyUtilsPathOf(x) : x \in Instances}

\* promises is the module variable (null or the reads it holds, named by
\* the soyutils file they read); missing, the files fs.readFile fails on;
\* loaded[x], the outcome of the support load into a new context of x.
NoPromises == "null"
InitSupport ==
  [promises |-> NoPromises, missing |-> {},
   loaded |-> [x \in Instances |-> "none"]]

\* getSupportFilePromises(soyUtilsPath): the reads of the first call are
\* kept and returned to every later call, whatever its argument.
GetSupportFilePromises(promises, soyUtilsPath) ==
  IF promises # NoPromises THEN promises ELSE soyUtilsPath

\* loadCompiledTemplateFiles on a context of x that is not initialized:
\* loadFiles(context, supportedFilePromises). A rejected read stays
\* rejected; a context whose support load failed stays uninitialized and
\* tries again at its next load.
LoadSupport(x) ==
  /\ support.loaded[x] \in {"none", "failed"}
  /\ LET p == GetSupportFilePromises(support.promises, SoyUtilsPathOf(x))
     IN  support' = [support EXCEPT
           !.promises = p,
           !.loaded[x] = IF p \in support.missing THEN "failed" ELSE p]
  /\ UNCHANGED <<defaults, lf, vm, run, lastMerge, options, pipelineVars>>

\* ------------------------------------------------------------- loadFiles
\* SoyVmContext.js:74-82, 115-135, 232-268. One loadCompiledTemplateFiles
\* call on an initialized context: pathsToPromises starts the read of every
\* path at once, loadFiles awaits the reads one by one, in the order of the
\* array, and runs each module when its read is there. read is the state of
\* each read, execd the indexes of the modules run so far, err the index of
\* the module whose read or execution failed (0: none), cache whether
\* _templateCache still has the entries it had at the call, calls what the
\* callback of the call has been invoked with, thrown whether the promise
\* that .catch is attached to is rejected and its handler has not run.
ContextJsPathChoices == { <<>>, <<"context.js">> }
FileChoices == { <<>>, <<FileList[1]>>, FileList }

InitLoadFiles ==
  [state |-> "idle", paths |-> <<>>, read |-> <<>>, execd |-> <<>>,
   err |-> 0, cache |-> "kept", calls |-> <<>>, thrown |-> FALSE]

\* options.contextJsPaths.concat(files), every read started.
LoadFilesStart(contextJsPaths, files) ==
  /\ lf.state = "idle" \/ (lf.state # "running" /\ lf.calls # <<>>)
  /\ ~lf.thrown
  /\ lf' = [state |-> "running", paths |-> contextJsPaths \o files,
            read |-> [k \in 1..Len(contextJsPaths \o files) |-> "pending"],
            execd |-> <<>>, err |-> 0, cache |-> "kept",
            calls |-> <<>>, thrown |-> FALSE]
  /\ UNCHANGED <<defaults, support, vm, run, lastMerge, options, pipelineVars>>

\* fs.readFile calls back, for any of the reads in flight.
ReadDone(k, ok) ==
  /\ k \in 1..Len(lf.paths)
  /\ lf.read[k] = "pending"
  /\ lf' = [lf EXCEPT !.read[k] = IF ok THEN "ok" ELSE "failed"]
  /\ UNCHANGED <<defaults, support, vm, run, lastMerge, options, pipelineVars>>

ModulesRun(l) == {l.execd[j] : j \in 1..Len(l.execd)}

\* A loadFiles that takes whichever read is there first.
NextModuleByCompletion(l) ==
  CHOOSE k \in 1..Len(l.paths) :
    /\ k \notin ModulesRun(l)
    /\ \/ l.read[k] # "pending"
       \/ \A j \in 1..Len(l.paths) : j \notin ModulesRun(l) => l.read[j] = "pending"

\* await filePromises[i++]
NextModule(l) == Len(l.execd) + 1

\* A loadFiles that catches the error of a module and goes on.
AfterModuleCarryOn(l, k, ok) ==
  IF Len(l.execd) + 1 = Len(l.paths) THEN "done" ELSE "running"

\* The promise of loadFiles after module k: rejected when the read or
\* vm.runInContext threw, resolved after the last module.
AfterModule(l, k, ok) ==
  IF ~ok THEN "failed"
  ELSE IF Len(l.execd) + 1 = Len(l.paths) THEN "done" ELSE "running"

\* The continuation of loadFiles: the next read has settled. A read that
\* failed rejects the await; otherwise the module runs, and may throw. With
\* no path at all the load is done at once.
ModuleRun(ok) ==
  /\ lf.state = "running"
  /\ IF lf.paths = <<>>
     THEN /\ ok
          /\ lf' = [lf EXCEPT !.state = "done"]
     ELSE LET k == NextModule(lf)
              read == lf.read[k]
              good == ok /\ read = "ok"
              state == AfterModule(lf, k, good)
          IN  /\ read # "pending"
              /\ read = "failed" => ~ok
              /\ lf' = [lf EXCEPT
                    !.state = state,
                    !.execd = IF read = "ok" THEN Append(@, k) ELSE @,
                    !.err = IF good \/ @ # 0 THEN @ ELSE k]
  /\ UNCHANGED <<defaults, support, vm, run, lastMerge, options, pipelineVars>>

\* The handlers of .then(finalResult => ..., err => callback(err)): after a
\* successful load the cache is emptied and the callback gets (null, true),
\* after a failed one it gets the error. A callback that throws rejects the
\* promise the handlers return.
LoadCallback(throws) ==
  /\ lf.state \in {"done", "failed"}
  /\ lf.calls = <<>>
  /\ lf' = [lf EXCEPT
        !.cache = IF lf.state = "done" THEN "emptied" ELSE @,
        !.calls = Append(@, IF lf.state = "done" THEN "ok" ELSE "err"),
        !.thrown = throws]
  /\ UNCHANGED <<defaults, support, vm, run, lastMerge, options, pipelineVars>>

\* .catch(err => callback(err)): the callback is given what it threw.
LoadCatch ==
  /\ lf.thrown
  /\ lf' = [lf EXCEPT !.calls = Append(@, "err"), !.thrown = FALSE]
  /\ UNCHANGED <<defaults, support, vm, run, lastMerge, options, pipelineVars>>

\* ------------------------------------------------------------ initial state
InitHist ==
  [ stamp |-> [f \in Files |-> 0],
    acceptedSince |-> {}, lastAccepted |-> {},
    waiting |-> [f \in Files |-> 0],
    served |-> [f \in Files |-> 0],
    burstAt |-> 0, burst |-> {}, burstPasses |-> 0,
    first |-> NoClosure,
    lastOutcome |-> "none", failedWatch |-> FALSE,
    cached |-> FALSE, spawns0 |-> 0,
    events |-> 0, callbacks |-> 0, last |-> NoPass,
    watchers |-> [f \in Files |-> 0], watchFailed |-> {}, emitter |-> 0,
    concat |-> [vmType |-> "", sources |-> <<>>, target |-> <<>>] ]

InitVm ==
  [ ctx |-> [v \in {} |-> NewContext],
    made |-> [v \in VmNames |-> 0],
    started |-> 0, loads |-> {},
    lastDone |-> [ctx |-> "", files |-> <<>>, ok |-> FALSE,
                  registry |-> [f \in Files |-> 0]],
    execd |-> {},
    lastGet |-> [ctx |-> "", name |-> "", outcome |-> "none", fn |-> 0,
                 cachedBefore |-> 0, globalBefore |-> 0, cachedAfter |-> 0,
                 stale |-> FALSE, since |-> 0] ]

\* No compiler process yet; first and last are the exit codes of the first
\* and of the latest signal.
InitRun ==
  [state |-> "idle", terminated |-> FALSE, signals |-> 0, first |-> -1,
   last |-> -1, stderr |-> "", logged |-> "",
   error |-> [message |-> "", stderr |-> ""]]

InitMerge == [opts |-> <<>>, outcome |-> "none", key |-> ""]

InitCommon ==
  /\ now = StartTime
  /\ call = [pc |-> "idle", n |-> 0, outputDir |-> <<"", 0>>, files |-> <<>>,
             dirty |-> <<>>, once |-> 0]
  /\ tasks = [t \in {} |-> ""]
  /\ watches = [f \in Files |-> 0]
  /\ watchFiles = {}
  /\ closure = NoClosure
  /\ dirtyFileSet = {}
  /\ pending = 0
  /\ chainWait = 0
  /\ passes = <<>>
  /\ spawns = [n |-> 0, last |-> [cwd |-> "", files |-> <<>>, outputDir |-> <<"", 0>>]]
  /\ vmTemplates = [v \in {} |-> ""]
  /\ lastEvent = [err |-> FALSE, success |-> FALSE]
  /\ hist = InitHist
  /\ vm = InitVm
  /\ run = InitRun
  /\ lastMerge = InitMerge
  /\ defaults = InitDefaults
  /\ lf = InitLoadFiles

\* The locale lists of the test suite: none, or two.
LocaleChoices == { <<>>, <<"pt-BR", "es">> }

\* A compiler with setOptions({allowDynamicRecompile: true}); nothing is on
\* disk.
Init ==
  /\ InitCommon
  /\ support = InitSupport
  /\ options = [DefaultOptions EXCEPT !.allowDynamicRecompile = TRUE]
  /\ env = [loadFaults |-> TRUE, listenerThrows |-> TRUE, copyFaults |-> FALSE,
            watchFaults |-> FALSE, rootReadable |-> TRUE, calls |-> 1]
  /\ disk = [q \in {} |-> ""]

PassStep ==
  \E i \in 1..Len(passes) :
    \/ \E code \in {0, 1} : CompilerExit(i, code)
    \/ \E concatOk \in BOOLEAN : PostStart(i, concatOk)
    \/ \E fault \in 0..Len(FileList) : LoadDone(i, fault)
    \/ \E throws \in BOOLEAN : Emit(i, throws)

LookupStep ==
  \/ \E f \in Files, v \in SeqToSet(VmTypesOf(options)) : StatDone(f, v)
  \/ \E f \in Files, v \in SeqToSet(VmTypesOf(options)), ok \in BOOLEAN :
       CopyDone(f, v, ok)
  \/ FilterSettle

CallStep ==
  \/ CompileTemplates
  \/ \E ok \in BOOLEAN : FindFilesDone(ok)
  \/ \E failed \in SUBSET Files : SetupAndLaunch(failed)

Next ==
  \/ CallStep
  \/ PassStep
  \/ \E f \in Files : Notify(f)
  \/ RunContinuation
  \/ Tick

Spec == Init /\ [][Next]_vars

\* The code's scheduling: the event loop runs every queued continuation, and
\* every pass terminates (the compiler exits, loads complete).
SpecFair == Spec /\ WF_vars(RunContinuation) /\ WF_vars(PassStep)

\* ------------------------------------------------ artifact cache, no watches
PrecompiledDirs == {NoDir, "tmp1"}
OutputDirs == {"tmp1", "tmp2"}

\* Every place a precompiled artifact can be at.
ArtifactPaths(locales) ==
  IF Len(locales) > 1
  THEN {<<<<"tmp1", 0>>, l, f>> : l \in SeqToSet(locales), f \in Files}
  ELSE {<<<<"tmp1", 0>>, "", f>> : f \in Files}

\* A compiler with a fixed output directory, with or without a precompiledDir
\* and locales; an earlier build left some artifacts in tmp1; the
\* precompiled root can be unreadable, and a copy can fail.
InitCache ==
  /\ InitCommon
  /\ support = InitSupport
  /\ \E l \in LocaleChoices, pre \in PrecompiledDirs, out \in OutputDirs :
       /\ options = [DefaultOptions EXCEPT !.locales = l, !.precompiledDir = pre,
                                           !.outputDir = out, !.uniqueDir = FALSE]
       /\ \E have \in SUBSET ArtifactPaths(l) : disk = [q \in have |-> OldJs]
  /\ \E readable \in BOOLEAN :
       env = [loadFaults |-> FALSE, listenerThrows |-> FALSE, copyFaults |-> TRUE,
              watchFaults |-> FALSE, rootReadable |-> readable, calls |-> MaxCalls]

NextCache ==
  \/ CallStep
  \/ LookupStep
  \/ PassStep

SpecCache == InitCache /\ [][NextCache]_vars

\* ------------------------------------------------------- one-shot compile
\* One compileTemplates call without watches and without a precompiledDir,
\* with or without concatOutput and loadCompiledTemplates, with no locale,
\* one or two; findFiles,
\* the compiler, a concatenation and a load can fail, the callback can throw.
InitOneShot ==
  /\ InitCommon
  /\ support = InitSupport
  /\ \E l \in LocaleChoices \cup {<<"es">>}, concat \in BOOLEAN, load \in BOOLEAN :
       options = [DefaultOptions EXCEPT !.locales = l, !.concatOutput = concat,
                                       !.loadCompiledTemplates = load]
  /\ env = [loadFaults |-> TRUE, listenerThrows |-> TRUE, copyFaults |-> FALSE,
            watchFaults |-> FALSE, rootReadable |-> TRUE, calls |-> 1]
  /\ disk = [q \in {} |-> ""]

NextOneShot ==
  \/ CallStep
  \/ PassStep

SpecOneShot == InitOneShot /\ [][NextOneShot]_vars

\* ------------------------------------------------- sandbox contexts alone
\* A compiler whose contexts are loaded and read through the public
\* loadCompiledTemplateFiles and get; loads may overlap and fail.
InitVmSpec ==
  /\ InitCommon
  /\ support = InitSupport
  /\ \E b \in BOOLEAN : options = [DefaultOptions EXCEPT !.loadCompiledTemplates = b]
  /\ env = [loadFaults |-> TRUE, listenerThrows |-> FALSE, copyFaults |-> FALSE,
            watchFaults |-> FALSE, rootReadable |-> TRUE, calls |-> 0]
  /\ disk = [q \in {} |-> ""]

LoadStep ==
  \E l \in vm.loads :
    \/ \E ok \in BOOLEAN : SupportDone(l, ok)
    \/ \E ok \in BOOLEAN : ModuleStep(l, ok)

NextVm ==
  \/ \E v \in VmNames, files \in LoadLists : LoadStart(v, files)
  \/ LoadStep
  \/ \E v \in VmNames, name \in TemplateNames : Get(v, name)

SpecVm == InitVmSpec /\ [][NextVm]_vars

\* The default sandbox alone, loaded, read and given raw contexts through
\* setContext.
NextSetContext ==
  \/ LoadStart(DEFAULT_VM_CONTEXT, FileList)
  \/ LoadStep
  \/ \E l \in vm.loads : ResetFailed(l)
  \/ \E name \in TemplateNames : Get(DEFAULT_VM_CONTEXT, name)
  \/ \E hasSoy \in BOOLEAN : SetContext(DEFAULT_VM_CONTEXT, hasSoy)

SpecSetContext == InitVmSpec /\ [][NextSetContext]_vars

\* ------------------------------------- option merge and one compiler run
InitUnits ==
  /\ InitCommon
  /\ support = InitSupport
  /\ options = DefaultOptions
  /\ env = [loadFaults |-> FALSE, listenerThrows |-> FALSE, copyFaults |-> FALSE,
            watchFaults |-> FALSE, rootReadable |-> TRUE, calls |-> 0]
  /\ disk = [q \in {} |-> ""]

NextUnits ==
  \/ \E opts \in MergeInputs : SetOptions(opts)
  \/ \E dirty \in BOOLEAN : RunCompiler(dirty)
  \/ \E exitCode \in {0, 1} : Signal(exitCode)

SpecUnits == InitUnits /\ [][NextUnits]_vars

\* One compiler run with its standard error and the 'error' event, while
\* setOptions is called with one key.
NextRun ==
  \/ \E kv \in MergePairs : SetOptions(<<kv>>)
  \/ \E dirty \in BOOLEAN : RunCompiler(dirty)
  \/ \E exitCode \in {0, 1} : Signal(exitCode)
  \/ StderrData
  \/ ProcessError

SpecRun == InitUnits /\ [][NextRun]_vars

\* ============================================== two compilers, one process
\* The options objects of the process and the support code its contexts
\* load: getDefaultOptions, setOptions of this compiler, merge on the
\* returned objects, and the support loads of two compilers.
InitInstances ==
  /\ InitCommon
  /\ \E m \in SUBSET UtilsPaths : support = [InitSupport EXCEPT !.missing = m]
  /\ options = DefaultOptions
  /\ env = [loadFaults |-> FALSE, listenerThrows |-> FALSE, copyFaults |-> FALSE,
            watchFaults |-> FALSE, rootReadable |-> TRUE, calls |-> 0]
  /\ disk = [q \in {} |-> ""]

NextInstances ==
  \/ \E kv \in MergePairs : SetOptions(<<kv>>)
  \/ GetDefaultOptions
  \/ \E k \in 1..MaxDefaults, kv \in MergePairs : MergeReturned(k, kv)
  \/ \E x \in Instances : LoadSupport(x)

SpecInstances == InitInstances /\ [][NextInstances]_vars

\* ======================================================= one loadFiles call
InitLoadSpec ==
  /\ InitCommon
  /\ support = InitSupport
  /\ options = DefaultOptions
  /\ env = [loadFaults |-> TRUE, listenerThrows |-> FALSE, copyFaults |-> FALSE,
            watchFaults |-> FALSE, rootReadable |-> TRUE, calls |-> 0]
  /\ disk = [q \in {} |-> ""]

NextLoad ==
  \/ \E c \in ContextJsPathChoices, files \in FileChoices : LoadFilesStart(c, files)
  \/ \E k \in 1..(Len(FileList) + 1), ok \in BOOLEAN : ReadDone(k, ok)
  \/ \E ok \in BOOLEAN : ModuleRun(ok)
  \/ \E throws \in BOOLEAN : LoadCallback(throws)
  \/ LoadCatch

SpecLoad == InitLoadSpec /\ [][NextLoad]_vars

\* ================================================ repeated calls, watching
\* A compiler with allowDynamicRecompile and without loadCompiledTemplates
\* that is called again after a call is over, while notifications arrive;
\* fs.watchFile can throw. The continuations of the chain, which read and
\* write neither _watches nor the watchers, are left to Spec.
InitRewatch ==
  /\ InitCommon
  /\ support = InitSupport
  /\ options = [DefaultOptions EXCEPT !.allowDynamicRecompile = TRUE,
                                      !.loadCompiledTemplates = FALSE]
  /\ env = [loadFaults |-> FALSE, listenerThrows |-> FALSE, copyFaults |-> FALSE,
            watchFaults |-> TRUE, rootReadable |-> TRUE, calls |-> MaxCalls]
  /\ disk = [q \in {} |-> ""]

NextRewatch ==
  \/ CallStep
  \/ PassStep
  \/ \E f \in Files : Notify(f)
  \/ Tick

SpecRewatch == InitRewatch /\ [][NextRewatch]_vars

\* The same compiler with the continuations of the chain: the watch passes
\* of the first call run while the compiler is called again. One of the
\* files changes.
NextRecall ==
  \/ CallStep
  \/ PassStep
  \/ Notify(FileList[1])
  \/ RunContinuation
  \/ Tick

SpecRecall == InitRewatch /\ [][NextRecall]_vars

\* =================================================== change-watch scheduler
WatchPasses == {passes[i] : i \in InFlight("watch")}

\* C1: no two watch-triggered compile passes are in flight at the same time:
\* a pass is launched only after the previously launched one has run its
\* compiler, its post-processing and its compile event.
C1_OneWatchPassAtATime == Cardinality(InFlight("watch")) <= 1

\* A continuation is queued behind a watch pass that is still in flight.
C1_Witness ==
  /\ InFlight("watch") # {}
  /\ pending > 0
  /\ dirtyFileSet # {}

\* C2: a watch-triggered pass does not start while the initial pass of the
\* compile call is still in flight.
C2_WatchPassWaitsForInitialPass ==
  InFlight("initial") # {} => InFlight("watch") = {}

\* C3: every accepted notification is eventually covered by a launched pass
\* whose dirty list contains the file (every pass terminates: SpecFair):
\* whenever accepted files are not yet covered, a later state has them all
\* covered.
C3_AcceptedIsEventuallyCompiled ==
  (hist.acceptedSince # {}) ~> (hist.acceptedSince = {})

\* A pass covering an accepted file was launched after a watch pass failed.
C3_Witness ==
  /\ hist.failedWatch
  /\ hist.acceptedSince = {}
  /\ \E p \in WatchPasses : SeqToSet(p.dirtyFiles) = hist.lastAccepted

\* C4 as claimed: distinct files accepted at the same instant (well within
\* one debounce window) are launched as exactly one pass.
C4_BurstGivesOnePass ==
  Cardinality(hist.burst) >= 2 => hist.burstPasses <= 1

\* C4 as amended: a continuation that finds dirty files launches exactly one
\* pass, over all the files accepted and not yet captured, and empties the
\* dirty set; a continuation that finds none launches nothing.
C4_OnePassPerCapture ==
  [][ pending' < pending =>
        IF dirtyFileSet # {}
        THEN /\ Len(passes') = Len(passes) + 1
             /\ passes'[Len(passes')].kind = "watch"
             /\ SeqToSet(passes'[Len(passes')].dirtyFiles) = hist.acceptedSince
             /\ dirtyFileSet' = {}
        ELSE passes' = passes /\ spawns' = spawns ]_vars

\* Two files accepted while a pass was in flight are recompiled by one pass,
\* and the continuation of the second is still queued.
C4_Witness ==
  /\ \E p \in WatchPasses : Len(p.dirtyFiles) = 2
  /\ pending > 0
  /\ dirtyFileSet = {}

\* C5 as claimed: every accepted notification of a file gets a pass of its
\* own, so no pass covers two accepted notifications of one file.
C5_EachAcceptedOwnPass == \A f \in Files : hist.served[f] <= 1

\* C5 as amended: a notification at least DEBOUNCE_MS after the file's last
\* accepted one is accepted, and waits in the dirty set, with a continuation
\* queued, until the next pass launched covers it, alone or together with the
\* earlier notifications of the file that are still waiting.
C5_AcceptedWaitsForNextPass ==
  \A f \in Files :
    /\ (hist.waiting[f] > 0) <=> (f \in dirtyFileSet)
    /\ f \in dirtyFileSet => pending > 0
    /\ hist.stamp[f] = watches[f]

\* One pass covers two accepted notifications of the same file.
C5_Witness == \E f \in Files : hist.served[f] = 2

\* C6: after a watch-triggered pass fails (compiler exit code, post-processing
\* error or a throwing 'compile' listener) the promise of the pass is
\* resolved, the chain is neither rejected nor blocked, and dirty files
\* still have a continuation queued that will launch their pass.
C6_SchedulerSurvivesFailure ==
  hist.failedWatch =>
    /\ hist.lastOutcome = "resolved"
    /\ chainWait # -1
    /\ (InFlight("watch") = {} => ChainReady)
    /\ (dirtyFileSet # {} => pending > 0)

\* A watch pass runs after an earlier watch pass failed.
C6_Witness == hist.failedWatch /\ InFlight("watch") # {}

\* C7: a watch-triggered pass hands the compiler exactly the files accepted
\* since the previous capture, runs in the input and output directory of
\* the initial compile, and post-processes all files of the watch set.
C7_WatchPassArguments ==
  \A p \in WatchPasses :
    /\ p.dirtyFiles = FilterSeq(FileList, hist.lastAccepted)
    /\ p.inputDir = hist.first.inputDir
    /\ p.outputDir = hist.first.outputDir
    /\ p.allFiles = hist.first.files
    /\ p.phase = "compile" =>
         spawns.last = [cwd |-> hist.first.inputDir, files |-> p.dirtyFiles,
                        outputDir |-> hist.first.outputDir]
    /\ p.phase = "load" =>
         {TemplatePaths(p)[k][3] : k \in 1..Len(p.allFiles)} = SeqToSet(hist.first.files)

\* A watch pass over one changed file loads all files of the watch set.
C7_Witness ==
  \E p \in WatchPasses :
    /\ p.phase = "load"
    /\ Len(p.dirtyFiles) = 1
    /\ Len(p.allFiles) = 2
    /\ spawns.last.files = p.dirtyFiles

\* =========================================================== artifact cache
VmTypes == SeqToSet(VmTypesOf(options))

\* The files without a readable precompiled artifact for some vmType.
Lacking ==
  {f \in Files : \E v \in VmTypes : ~StatOk(PrecompiledFileName(f, v))}

\* A lookup was rejected: mkdirs or copy failed.
CopyFailed == \E t \in DOMAIN tasks : tasks[t] = "failed"

C9_LookupFallsBackToAllFiles ==
  (options.precompiledDir = NoDir \/ ~env.rootReadable) =>
    /\ ~CopyFailed
    /\ call.pc \in {"filtered", "launched"} => call.dirty = FileList
    /\ \A i \in InFlight("initial") :
         /\ passes[i].dirtyFiles = FileList
         /\ passes[i].phase = "compile" =>
              /\ spawns.n = hist.spawns0 + 1
              /\ spawns.last.files = FileList

\* Every artifact is in the precompiled directory, which cannot be read, and
\* the compiler runs over all files.
C9_Witness ==
  /\ options.precompiledDir # NoDir
  /\ ~env.rootReadable
  /\ \A f \in Files : \A v \in VmTypes : PrecompiledFileName(f, v) \in DOMAIN disk
  /\ \E i \in InFlight("initial") :
       passes[i].phase = "compile" /\ passes[i].dirtyFiles = FileList

C11_SupportAtMostOnce ==
  \A v \in DOMAIN vm.ctx : vm.ctx[v].supportRuns <= 1

\* The registrations the modules of one load make: one per file of the load.
OwnRegistrations(files) ==
  [f \in Files |-> IF f \in SeqToSet(files) THEN 1 ELSE 0]

\* C12: when a load completes successfully the delegate registry of its
\* context holds exactly the registrations of the modules of that load, none
\* twice and none of an earlier load.
C12_RegistryIsThisLoad ==
  vm.lastDone.ok => vm.lastDone.registry = OwnRegistrations(vm.lastDone.files)

\* C13: no cache entry of any context was stored before the latest
\* successfully completed load of that context (the completion left the
\* cache empty), and get never returns such an entry.
C13_GetNeverStale ==
  /\ \A v \in DOMAIN vm.ctx : \A n \in TemplateNames : ~vm.ctx[v].stale[n]
  /\ ~vm.lastGet.stale

\* Both loads of a context have completed, and a get issued afterwards
\* resolved the function the second load defined.
C13_Witness ==
  /\ vm.loads = {}
  /\ vm.lastDone.ok
  /\ vm.lastDone.ctx = vm.lastGet.ctx
  /\ vm.lastGet.outcome = "fn"
  /\ vm.lastGet.cachedBefore = 0
  /\ vm.lastGet.fn = MaxLoads

C15_OneContextPerLocale ==
  /\ \A v \in VmNames :
       /\ vm.made[v] <= 1
       /\ v \in DOMAIN vm.ctx <=> vm.made[v] = 1
  /\ vm.lastGet.outcome = "fn" =>
       <<vm.lastGet.ctx, vm.lastGet.name>> \in vm.execd

\* The template was loaded into the default context only, and get through
\* the context of the locale failed with 'Unknown template'.
C15_Witness ==
  /\ <<DEFAULT_VM_CONTEXT, FileList[1]>> \in vm.execd
  /\ <<"es", FileList[1]>> \notin vm.execd
  /\ vm.lastGet = [vm.lastGet EXCEPT !.ctx = "es", !.name = FileList[1],
                                     !.outcome = "unknown"]
  /\ vm.made = [v \in VmNames |-> 1]

\* ============================================================= compiler run
\* C16: a compiler run with a process is pending until the first 'exit' or
\* 'error' signal, which settles it (code 0 resolves, any other code or a
\* spawn error rejects); no later signal changes the outcome. A run without
\* dirty files has no process and is resolved.
C16_SettledByFirstSignal ==
  /\ run.signals = 0 => run.state \in {"idle", "pending", "resolved"}
  /\ (run.signals = 0 /\ run.state = "resolved") => run.first = -1
  /\ run.signals > 0 =>
       run.state = IF run.first = 0 THEN "resolved" ELSE "rejected"

\* The process exited with code 0 and signalled an error afterwards: the run
\* stays resolved.
C16_Witness ==
  /\ run.signals = 2
  /\ run.first = 0
  /\ run.last = 1
  /\ run.state = "resolved"

\* ============================================================= option merge
\* The option fields a SoyOptions object declares.
DeclaredOptions == DOMAIN DefaultOptions

\* The keys of the latest setOptions argument that the loop goes through.
MergedKeys == OtherOpts(lastMerge.opts)

\* The positions of MergedKeys holding a key that is not a declared option.
Undeclared == {i \in 1..Len(MergedKeys) : MergedKeys[i][1] \notin DeclaredOptions}

\* Of those, the positions that do not hold a method together with the
\* object's own function for it.
Refused ==
  {i \in Undeclared :
     ~(MergedKeys[i][1] \in Methods /\ MergedKeys[i][2] = OwnMethod(MergedKeys[i][1]))}

\* C20 as stated: setOptions throws exactly when its argument has a key that
\* is not a declared option, a key naming a method included; no other key
\* ever becomes an option.
C20_RejectsEveryUndeclaredKey ==
  /\ DOMAIN options = DeclaredOptions
  /\ lastMerge.outcome # "none" =>
       (lastMerge.outcome = "threw" <=> Undeclared # {})

\* C20 amended: setOptions throws exactly when its argument has a key that
\* is not a declared option, other than a method given with the object's own
\* function, which is skipped; it names the first such key, the keys before
\* it have been assigned, and no other key ever becomes an option.
C20_RejectsAllButOwnMethod ==
  /\ DOMAIN options = DeclaredOptions
  /\ lastMerge.outcome # "none" =>
       /\ lastMerge.outcome = "threw" <=> Refused # {}
       /\ \A i \in Refused :
            (\A j \in Refused : i <= j) => lastMerge.key = MergedKeys[i][1]
       /\ \A i \in 1..Len(MergedKeys) :
            (i \notin Undeclared /\ \A j \in Refused : i < j) =>
              options[MergedKeys[i][1]] = ValueOf(MergedKeys[i][2])

\* A merge that assigned an option, skipped its own merge method and was
\* completed without an error.
C20_Witness ==
  /\ lastMerge.outcome = "ok"
  /\ Undeclared # {}
  /\ \E i \in 1..Len(MergedKeys) : i \notin Undeclared
  /\ ~options.loadCompiledTemplates

\* ========================================================= compile outcomes
\* The concatenation files on disk.
ConcatFiles ==
  {q \in DOMAIN disk :
     \E v \in SeqToSet(VmTypesOf(options)) : q = ConcatFile(call.outputDir, v)}

C18_ErrorEventNotSuccess == ~(lastEvent.err /\ lastEvent.success)

\* C19: the callback of the call has been invoked once when the call's
\* emitter has published an event, however many it has published, and not
\* before.
C19_CallbackOnceAtFirstEvent ==
  hist.callbacks = IF hist.events = 0 THEN 0 ELSE 1

\* A watch pass has published a second event and the callback has been
\* invoked once.
C19_Witness ==
  /\ hist.events = 2
  /\ hist.callbacks = 1
  /\ hist.lastOutcome # "none"

C22_SupportLoadOwnOutcome ==
  \A x \in Instances :
    support.loaded[x] # "none" =>
      support.loaded[x] = IF SoyUtilsPathOf(x) \in support.missing
                          THEN "failed" ELSE SoyUtilsPathOf(x)

\* C27: the modules of a load run in the order of the paths supplied, the
\* contextJsPaths before the files, whatever the order in which the reads
\* complete; a load that succeeded has run them all.
C27_SuppliedOrder ==
  /\ \A j \in 1..Len(lf.execd) : lf.execd[j] = j
  /\ lf.state = "done" => Len(lf.execd) = Len(lf.paths)

\* The read of the last file is there before the read of the first file; the
\* context module alone has run.
C27_Witness ==
  /\ lf.paths = <<"context.js">> \o FileList
  /\ lf.execd = <<1>>
  /\ lf.read[2] = "pending"
  /\ lf.read[3] = "ok"

\* C28: once the read or the execution of module k has failed, the load has
\* failed, no module after k has run, and the template cache has not been
\* cleared.
C28_FailureStopsLoad ==
  lf.err # 0 =>
    /\ lf.state = "failed"
    /\ \A j \in ModulesRun(lf) : j <= lf.err
    /\ lf.cache = "kept"

\* The second of three modules threw; the read of the third had succeeded.
C28_Witness ==
  /\ Len(lf.paths) = 3
  /\ lf.err = 2
  /\ lf.execd = <<1, 2>>
  /\ lf.read[3] = "ok"
  /\ lf.state = "failed"

C25_OneLoadPerContext ==
  \A i, j \in 1..Len(passes) :
    (i # j /\ passes[i].phase = "load" /\ passes[j].phase = "load")
      => passes[i].cur # passes[j].cur

C24_NoEmptyWatchPass ==
  /\ [](\A p \in WatchPasses : p.dirtyFiles # <<>>)
  /\ [][ pending' < pending =>
           IF dirtyFileSet = {}
           THEN /\ passes' = passes
                /\ spawns' = spawns
                /\ lastEvent' = lastEvent
                /\ hist'.events = hist.events
                /\ dirtyFileSet' = {}
           ELSE /\ dirtyFileSet' = {}
                /\ \A f \in dirtyFileSet :
                     /\ hist.waiting[f] > 0
                     /\ hist'.waiting[f] = 0
                     /\ \E k \in 1..Len(passes'[Len(passes')].dirtyFiles) :
                          passes'[Len(passes')].dirtyFiles[k] = f ]_vars

\* A continuation is queued, with nothing dirty and no pass in flight: the
\* files it was queued for have been captured by an earlier continuation.
C24_Witness ==
  /\ pending > 0
  /\ dirtyFileSet = {}
  /\ InFlight("watch") = {}
  /\ hist.lastAccepted # {}

\* C30: fs.watchFile is called at most once for a file of a compiler, and a
\* setup that meets a registered file leaves its watcher and its debounce
\* time stamp as they are.
C30_RegisteredOnce ==
  /\ [](\A f \in Files : hist.watchers[f] <= 1)
  /\ [][ (call.pc = "filtered" /\ call'.pc = "launched") =>
           \A f \in Files :
             watches[f] # 0 =>
               /\ watches'[f] = watches[f]
               /\ hist'.watchers[f] = hist.watchers[f]
               /\ (f \in watchFiles') = (f \in watchFiles) ]_vars

\* The second call has set up its watches after the clock moved on: the
\* files keep the watcher and the time stamp of the first call.
C30_Witness ==
  /\ call.n = 2
  /\ call.pc = "launched"
  /\ \A f \in Files : hist.watchers[f] = 1 /\ watches[f] = StartTime
  /\ now > StartTime

\* C31: a setup in which fs.watchFile throws for some files still launches
\* the initial pass and does not fail the call; from then on every file of
\* the call but those is watched, and those are not.
C31_WatchFailureIsLocal ==
  /\ [](call.pc = "launched" =>
          /\ watchFiles = SeqToSet(call.files) \ hist.watchFailed
          /\ \A f \in hist.watchFailed : hist.watchers[f] = 0)
  /\ [][ (call.pc = "filtered" /\ call' # call) =>
           /\ call'.pc = "launched"
           /\ Len(passes') = Len(passes) + 1
           /\ passes'[Len(passes')].kind = "initial"
           /\ lastEvent' = lastEvent ]_vars

\* The registration of one file threw; the other file is watched and the
\* initial pass is in flight.
C31_Witness ==
  /\ call.pc = "launched"
  /\ Cardinality(hist.watchFailed) = 1
  /\ Cardinality(watchFiles) = 1
  /\ InFlight("initial") # {}

\* C32: for every file and locale of a pass the path of _getOutputFile is
\* the path the compiler is told to write, it has a locale segment exactly
\* when more than one locale is configured, and after a successful compiler
\* run over all the files the file is there.
C32_OutputPathsAgree ==
  \A i \in 1..Len(passes) :
    \A k \in 1..Len(passes[i].allFiles), v \in SeqToSet(VmTypesOf(options)) :
      LET p == passes[i]
          q == GetOutputFile(options, p.outputDir, p.allFiles[k], v)
      IN  /\ q = CompilerOutputPath(options, p.outputDir, p.allFiles[k], v)
          /\ (q[2] # "") <=> (Len(options.locales) > 1)
          /\ (p.phase \in {"post", "load"} /\ p.dirtyFiles = p.allFiles)
               => q \in DOMAIN disk

\* With a single locale the compiled files are being loaded from paths
\* without a locale segment.
C32_Witness ==
  /\ Len(options.locales) = 1
  /\ \E i \in 1..Len(passes) :
       /\ passes[i].phase = "load"
       /\ \A k \in 1..Len(passes[i].allFiles) :
            <<passes[i].outputDir, "", passes[i].allFiles[k]>> \in DOMAIN disk

C34_ErrorCarriesStderr ==
  run.state = "rejected" => run.error.stderr = run.logged

\* C34 as amended: a failed compiler run is rejected with the generic error
\* 'Error compiling templates', which carries nothing of the process; the
\* text accumulated from its standard error up to the failure, the spawn
\* error included, is written to console.error.
C34_GenericErrorStderrLogged ==
  run.state = "rejected" =>
    /\ run.error = [message |-> "Error compiling templates", stderr |-> ""]
    /\ run.terminated
    /\ \/ run.logged = ""
       \/ run.logged = "syntax error"
       \/ run.logged = "Error: spawn java ENOENT"
       \/ run.logged = "syntax error" \o "Error: spawn java ENOENT"

\* The process wrote to its standard error and exited with a non-zero code.
C34_Witness ==
  /\ run.state = "rejected"
  /\ run.logged = "syntax error"
  /\ run.signals = 1

\* C35 as claimed: a setOptions that throws has changed no option.
C35_MergeIsAtomic ==
  [][ (lastMerge' # lastMerge /\ lastMerge'.outcome = "threw") =>
        options' = options ]_vars

\* C35 as amended: a setOptions that throws has stored the tmpDir and the
\* outputDir of its argument (when not null) and assigned the keys that come
\* before the refused one; every other option has the value it had.
C35_ThrowKeepsEarlierKeys ==
  [][ (lastMerge' # lastMerge /\ lastMerge'.outcome = "threw") =>
        LET opts == lastMerge'.opts
            keys == OtherOpts(opts)
            first == CHOOSE i \in 1..Len(keys) : keys[i][1] = lastMerge'.key
            dirs == {i \in 1..Len(opts) :
                       opts[i][1] \in {"tmpDir", "outputDir"} /\ opts[i][2] # NoDir}
            early == {i \in 1..(first - 1) : keys[i][1] \in DOMAIN options}
        IN  \A k \in DOMAIN options :
              /\ \A i \in dirs : opts[i][1] = k => options'[k] = PathResolve(opts[i][2])
              /\ \A i \in early : keys[i][1] = k => options'[k] = ValueOf(keys[i][2])
              /\ (\A i \in dirs : opts[i][1] # k) /\ (\A i \in early : keys[i][1] # k)
                   => options'[k] = options[k] ]_vars

\* setOptions({loadCompiledTemplates: false, noSuchOption: 1}) has thrown and
\* loadCompiledTemplates is false.
C35_Witness ==
  /\ lastMerge.outcome = "threw"
  /\ lastMerge.opts = << <<"loadCompiledTemplates", "false">>, <<"noSuchOption", "1">> >>
  /\ options.loadCompiledTemplates = FALSE


\* C36: the callback of loadCompiledTemplateFiles is invoked at most once for
\* a call, with the error or with the success result, also when the callback
\* throws while it is notified of success.
C36_CallbackOnce ==
  Len(lf.calls) <= 1


\* C37: once the load of one locale has failed in a pass, the pass calls
\* _postCompileProcess for no further locale: the locales still left have no
\* context loaded by it, nothing is loaded into any context afterwards, every
\* locale processed before the failing one has all the files of the pass
\* loaded in its context, and the pass ends by publishing the compile event
\* with the error.
C37_LoadFailureSkipsRest ==
  /\ [](\A i \in 1..Len(passes) :
          LET p == passes[i]
          IN  p.cause = "load" =>
                /\ p.err /\ p.phase = "emit"
                /\ \A k \in 1..Len(p.vmLeft) :
                     /\ p.vmLeft[k] \notin SeqToSet(p.postLog)
                     /\ p.vmLeft[k] \notin DOMAIN vmTemplates
                /\ \A j \in 1..(Len(p.postLog) - 1) :
                     /\ p.postLog[j] \in DOMAIN vmTemplates
                     /\ \A n \in 1..Len(p.allFiles) :
                          /\ p.allFiles[n] \in DOMAIN vmTemplates[p.postLog[j]]
                          /\ vmTemplates[p.postLog[j]][p.allFiles[n]]
                               = disk[GetOutputFile(options, p.outputDir,
                                                    p.allFiles[n], p.postLog[j])])
  /\ [][\A i \in 1..Len(passes) :
          passes[i].cause = "load" =>
            /\ vmTemplates' = vmTemplates
            /\ passes' # passes =>
                 /\ Len(passes') = Len(passes) - 1
                 /\ lastEvent' = CompileEvent(TRUE)]_vars

\* Two locales: the load of the one processed first failed and the other is
\* still left, with no context of its own.
C37_Witness ==
  \E i \in 1..Len(passes) :
    /\ passes[i].cause = "load"
    /\ Len(passes[i].vmLeft) = 1
    /\ passes[i].vmLeft[1] \notin DOMAIN vmTemplates


\* C38: the end of a watch pass that failed leaves the dirty set and the
\* queued continuations as they are and starts nothing; a file enters the
\* dirty set only through an accepted notification for it, and a watch pass
\* starts only from a queued continuation, over exactly the files that are
\* dirty then.
C38_FailedPassNotRetried ==
  /\ [][ \A i \in 1..Len(passes) :
           (/\ passes[i].kind = "watch"
            /\ passes[i].err
            /\ \A j \in 1..Len(passes') : passes'[j].id # passes[i].id) =>
             /\ dirtyFileSet' = dirtyFileSet
             /\ pending' = pending
             /\ spawns' = spawns
             /\ Len(passes') = Len(passes) - 1 ]_vars
  /\ [][ \A f \in dirtyFileSet' \ dirtyFileSet :
           /\ hist'.waiting[f] = hist.waiting[f] + 1
           /\ watches'[f] = now
           /\ pending' = pending + 1 ]_vars
  /\ [][ (Len(passes') > Len(passes) /\ passes'[Len(passes')].kind = "watch") =>
           /\ pending' = pending - 1
           /\ dirtyFileSet # {}
           /\ SeqToSet(passes'[Len(passes')].dirtyFiles) = dirtyFileSet ]_vars

\* The initial pass succeeded and a watch pass has published an error and
\* ended; nothing is dirty, nothing is queued and no pass is in flight.
C38_Witness ==
  /\ hist.failedWatch
  /\ hist.last.posted /\ hist.last.cause = "none"
  /\ lastEvent = CompileEvent(TRUE)
  /\ dirtyFileSet = {}
  /\ pending = 0
  /\ passes = <<>>


\* C39: every watch pass runs with the output directory, the file list and
\* the emitter of the call that registered the watchers, also after a later
\* call that registered nothing; the event of a watch pass is published on
\* that emitter, and when a later call has been made it leaves the later
\* call's listeners and event count as they are.
C39_WatcherKeepsFirstCall ==
  /\ [](\A p \in WatchPasses :
          /\ p.outputDir = hist.first.outputDir
          /\ p.allFiles = hist.first.files
          /\ p.emitter = hist.first.emitter
          /\ p.phase = "post" =>
               \A k \in 1..Len(p.allFiles) :
                 TemplatePaths([p EXCEPT !.cur = DEFAULT_VM_CONTEXT])[k][1]
                   = hist.first.outputDir)
  /\ [][ \A i \in 1..Len(passes) :
           (/\ passes[i].kind = "watch"
            /\ \A j \in 1..Len(passes') : passes'[j].id # passes[i].id) =>
             /\ hist'.emitter = hist.first.emitter
             /\ call.n # hist.first.emitter =>
                  /\ call' = call
                  /\ hist'.events = hist.events
                  /\ hist'.callbacks = hist.callbacks ]_vars

\* The second call is over, with a directory of its own and its callback
\* invoked; the event published last is on the emitter of the first call.
C39_Witness ==
  /\ call.n = 2
  /\ CallOver
  /\ hist.first.emitter = 1
  /\ call.outputDir # hist.first.outputDir
  /\ hist.events = 1 /\ hist.callbacks = 1
  /\ hist.emitter = 1


\* C40 as claimed: the template cache and the initialized flag follow the
\* raw context: get returns no function that was defined in a replaced
\* context, and a sandbox counts as initialized only while its raw context
\* defines the soy support code.
C40_CacheAndFlagFollowContext ==
  /\ vm.lastGet.outcome = "fn" => vm.lastGet.fn > vm.lastGet.since
  /\ \A v \in DOMAIN vm.ctx : vm.ctx[v].initialized => vm.ctx[v].soy

\* C40, amended: setContext replaces the raw context and nothing else: the
\* template cache and the initialized flag are as before it, and the flag is
\* never taken back. A get that finds the name in the cache returns the
\* cached function, whichever raw context it was defined in, and a load on
\* an initialized sandbox runs the reset code only, which fails when the raw
\* context does not define the soy support code.
C40_SetContextKeepsCacheAndFlag ==
  /\ [][ \A v \in DOMAIN vm.ctx :
           /\ v \in DOMAIN vm'.ctx
           /\ vm.ctx[v].initialized => vm'.ctx[v].initialized
           /\ vm'.ctx[v].since # vm.ctx[v].since =>
                /\ vm'.ctx[v].cache = vm.ctx[v].cache
                /\ vm'.ctx[v].initialized = vm.ctx[v].initialized
                /\ vm'.ctx[v].globals = NewContext.globals ]_vars
  /\ []((vm.lastGet.outcome = "fn" /\ vm.lastGet.cachedBefore # 0) =>
          vm.lastGet.fn = vm.lastGet.cachedBefore)
  /\ [][ vm'.started # vm.started =>
           \E l \in vm'.loads :
             /\ l.id = vm'.started
             /\ l.ctx \in DOMAIN vm.ctx =>
                  l.phase = IF ~vm.ctx[l.ctx].initialized THEN "support"
                            ELSE IF vm.ctx[l.ctx].soy THEN "modules"
                            ELSE "reset" ]_vars
  /\ [](\A l \in vm.loads : l.phase = "reset" => ~vm.ctx[l.ctx].soy)

\* After a raw context without the support code was set, get has returned a
\* function cached before, and the load started next has failed in the reset
\* code: the sandbox still counts as initialized.
C40_Witness ==
  /\ vm.lastGet.outcome = "fn"
  /\ vm.lastGet.fn <= vm.lastGet.since
  /\ vm.lastDone.ctx = DEFAULT_VM_CONTEXT /\ ~vm.lastDone.ok
  /\ vm.started = 2 /\ vm.loads = {}
  /\ vm.ctx[DEFAULT_VM_CONTEXT].initialized
  /\ ~vm.ctx[DEFAULT_VM_CONTEXT].soy
  /\ vm.ctx[DEFAULT_VM_CONTEXT].since = 1
====
